---- MODULE Spec2Model ----
(***************************************************************************)
(* Precision propagation of mpf_class and the cached constants of          *)
(* gmpxx_mkII, in its two header variants:                                  *)
(*   "gmpxx_mkII" : src/gmpxx_mkII.h                                        *)
(*   "part_001"   : src/unnamed/part_001                                    *)
(*                                                                         *)
(* An mpf value is modelled by what the precision rules can observe:       *)
(*   mp_prec : the limb precision the engine stores in the mpf_t           *)
(*             (get_prec() reports PREC_TO_BITS of it);                    *)
(*   acc     : the information content of the stored number: 0 when the    *)
(*             number is exactly representable (0, 1.0, 2.0, a small       *)
(*             integer, a power of two), otherwise the number of bits of   *)
(*             the narrowest destination the number was rounded into on    *)
(*             its way here. Two results of the same computation are the   *)
(*             same number only if their acc agree.                        *)
(***************************************************************************)
EXTENDS Integers, Sequences, FiniteSets, TLC

VARIABLES
    header,                     \* which header the program is built from
    noprecchange,               \* the no-precision-change macro is defined
    default_prec,               \* engine default precision, in limbs
    obj,                        \* the program's named mpf_class objects
    ret,                        \* value of the expression just evaluated
    pi_cached,                  \* namespace-scope object pi_cached
    pi_calculated,              \* const_pi()::calculated
    calculated_pi_precision,    \* const_pi()::calculated_pi_precision
    log2_cached,                \* const_log2()::log2_cached
    log2_calculated,            \* const_log2()::calculated
    calculated_log2_precision,  \* const_log2()::calculated_log2_precision
    aborted,                    \* an assert has failed and ended the program
    last,                       \* the operation the last step executed
    calls,                      \* defaults and outcomes of the const_pi() calls
    heap,                       \* the engine's limb buffers
    ptr,                        \* the buffer each mpf_t handle points to
    double_free,                \* a buffer was released that was not live
    signal,                     \* how the last parse reported its outcome
    num,                        \* the numbers of the function in progress
    os                          \* the output stream: its text and its width

vars == <<header, noprecchange, default_prec, obj, ret, pi_cached,
          pi_calculated, calculated_pi_precision, log2_cached,
          log2_calculated, calculated_log2_precision, aborted, last, calls,
          heap, ptr, double_free, signal, num, os>>

memVars == <<heap, ptr, double_free, signal, num, os>>

cacheVars == <<pi_cached, pi_calculated, calculated_pi_precision,
               log2_cached, log2_calculated, calculated_log2_precision>>

(***************************************************************************)
(* Bounds and program constants                                            *)
(***************************************************************************)
MaxShift == 1
MaxObjShift == 1
MaxIter == 2
MaxBuf == 4
MaxLoopLimbs == 2
MaxLogArg == 16
MaxExpArg == 20
MaxWidth == 4
MaxPoint == 3
MaxLines == 1
MaxArg == 5
MaxInt == 5
MaxShiftCount == 2
MaxRequest == 5
GMP_NUMB_BITS == 64
InitializerPrec == 512
FactorialMaxBits == 300
DecDefaultPrec == 6

Headers == {"gmpxx_mkII", "part_001"}
Objs == {"x", "y"}

\* default precisions a program asks for: 128, 256, ...
Requests == {2 * GMP_NUMB_BITS * (2 ^ k) : k \in 0..MaxShift}
\* precisions a program asks for in a constructor, in set_prec or in
\* const_pi(p): 64, 128, ... and one that is no multiple of the limb size
ObjRequests == {GMP_NUMB_BITS * (2 ^ k) : k \in 0..MaxObjShift} \cup {100}

Max2(a, b) == IF a > b THEN a ELSE b
Min2(a, b) == IF a < b THEN a ELSE b

(***************************************************************************)
(* The engine (GMP mpf) as the wrapper uses it                             *)
(***************************************************************************)
\* __GMPF_BITS_TO_PREC: bits asked for -> limbs stored
BitsToPrec(n) == (Max2(53, n) + 2 * GMP_NUMB_BITS - 1) \div GMP_NUMB_BITS
\* __GMPF_PREC_TO_BITS: limbs stored -> bits reported
PrecToBits(n) == n * GMP_NUMB_BITS - GMP_NUMB_BITS

\* the engine's default precision before any setter has run
EngineInitialPrec == BitsToPrec(53)

mpf_get_default_prec(d) == PrecToBits(d)
mpf_set_default_prec(bits) == BitsToPrec(bits)
mpf_get_prec(v) == PrecToBits(v.mp_prec)

\* the narrowest of the rounding widths in S, 0 (exact) when there is none
Narrowest(S) ==
    LET W == S \ {0}
    IN  IF W = {} THEN 0 ELSE CHOOSE w \in W : \A u \in W : w <= u

\* mpf_init / mpf_init2: a zero of default / requested precision
mpf_init(d) == [mp_prec |-> d, acc |-> 0]
mpf_init2(bits) == [mp_prec |-> BitsToPrec(bits), acc |-> 0]
\* mpf_set: r keeps its precision, u's number is rounded into it
mpf_set(r, u) ==
    [mp_prec |-> r.mp_prec,
     acc |-> IF u.acc = 0 THEN 0 ELSE Min2(mpf_get_prec(r), u.acc)]
\* mpf_set_d / mpf_set_si / mpf_set_ui / mpf_set_str: r keeps its precision
mpf_set_prim(r) == [mp_prec |-> r.mp_prec, acc |-> 0]
\* mpf_init_set, mpf_init_set_d, ...: default precision
mpf_init_set(d, u) == mpf_set(mpf_init(d), u)
\* mpf_add / mpf_sub / mpf_mul into r: exact on exact operands
mpf_arith(r, u, v) ==
    [mp_prec |-> r.mp_prec,
     acc |-> IF u.acc = 0 /\ v.acc = 0 THEN 0
             ELSE Narrowest({mpf_get_prec(r), u.acc, v.acc})]
\* mpf_div / mpf_sqrt into r: the quotient or root is rounded to r
mpf_inexact(r, u, v) ==
    [mp_prec |-> r.mp_prec,
     acc |-> Narrowest({mpf_get_prec(r), u.acc, v.acc})]
\* mpf_neg / mpf_abs / mpf_mul_2exp / mpf_div_2exp into r
mpf_unary(r, u) == mpf_set(r, u)
\* mpf_set_prec: reallocates to the new precision, truncating the number
mpf_set_prec(v, bits) == mpf_set(mpf_init2(bits), v)
\* mpf_set_prec_raw: rewrites the precision field only
mpf_set_prec_raw(v, bits) == [v EXCEPT !.mp_prec = BitsToPrec(bits)]

BinOps == {"+", "-", "*", "/"}
mpf_op(opr, r, u, v) ==
    IF opr = "/" THEN mpf_inexact(r, u, v) ELSE mpf_arith(r, u, v)

(***************************************************************************)
(* mpf_class: constructors                                                 *)
(***************************************************************************)
\* mpf_class()
mpf_class_default(d) == mpf_init(d)
\* mpf_class(const mpf_class &op)
mpf_class_copy(op, d) ==
    IF header = "part_001" /\ noprecchange
    THEN mpf_init_set(d, op)
    ELSE mpf_set(mpf_init2(mpf_get_prec(op)), op)
\* mpf_class(const mpf_class &op, mp_bitcnt_t prec)
mpf_class_copy_prec(op, prec) == mpf_set(mpf_init2(prec), op)
\* mpf_class(mpf_class &&op): mpf_init, then mpf_swap with op
mpf_class_move(op) == op
\* explicit mpf_class(const mpf_t op)
mpf_class_mpf_t(op, d) ==
    IF header = "part_001" /\ noprecchange
    THEN mpf_init_set(d, op)
    ELSE mpf_set(mpf_init2(mpf_get_prec(op)), op)
\* a primitive constructor fixed at the precision of program start
mpf_class_prim_initial(d) == mpf_set_prim(mpf_init2(InitializerPrec))
\* mpf_class(double), mpf_class(signed long int), mpf_class(const char *), ...
mpf_class_prim(d) ==
    IF header = "part_001"
    THEN mpf_set_prim(mpf_init(d))
    ELSE mpf_set_prim(mpf_init2(mpf_get_default_prec(d)))
\* mpf_class(double op, mp_bitcnt_t prec), ...
mpf_class_prim_prec(prec) == mpf_set_prim(mpf_init2(prec))

(***************************************************************************)
(* mpf_class: assignment                                                   *)
(***************************************************************************)
\* mpf_class &operator=(const mpf_class &op)
copy_assign(self, op, d) ==
    IF header = "part_001"
    THEN IF noprecchange
         THEN mpf_init_set(d, op)
         ELSE mpf_set(mpf_init2(mpf_get_prec(self)), op)
    ELSE IF noprecchange
         THEN mpf_set(self, op)
         ELSE mpf_set(mpf_init2(mpf_get_prec(self)), op)
\* mpf_class &operator=(mpf_class &&op)
move_assign(self, op, d) ==
    IF header = "part_001"
    THEN IF noprecchange
         THEN op
         ELSE mpf_set(mpf_init2(mpf_get_prec(self)), op)
    ELSE op
\* mpf_class &operator=(double d), operator=(signed long int), operator=(const char *)
assign_prim(self) == mpf_set_prim(self)

(***************************************************************************)
(* mpf_class (op) mpf_class                                                *)
(***************************************************************************)
\* a largerprec that takes the first operand's precision
largerprec_first(op1, op2) == mpf_get_prec(op1)
\* largerprec
largerprec(op1, op2) ==
    LET prec1 == mpf_get_prec(op1)
        prec2 == mpf_get_prec(op2)
    IN  IF prec1 > prec2 THEN prec1 ELSE prec2
\* operator+=, operator-=, operator*=, operator/= (mpf_class &, const mpf_class &)
compound_assign(opr, lhs, rhs) == mpf_op(opr, lhs, lhs, rhs)
\* binary operators that re-initialise the result at largerprec in both modes
binary_result_larger(opr, op1, op2, d) ==
    mpf_class_move(mpf_op(opr, mpf_init2(largerprec(op1, op2)), op1, op2))
\* the body shared by the four binary operators: result is default
\* constructed, re-initialised at largerprec in standard mode, and returned
binary_result(opr, op1, op2, d) ==
    LET result == mpf_class_default(d)
    IN  IF noprecchange
        THEN mpf_class_move(mpf_op(opr, result, op1, op2))
        ELSE mpf_class_move(mpf_op(opr, mpf_init2(largerprec(op1, op2)), op1, op2))
\* operator+(const mpf_class &, const mpf_class &)
operator_add(op1, op2, d) == binary_result("+", op1, op2, d)
\* operator-(const mpf_class &, const mpf_class &)
operator_sub(op1, op2, d) == binary_result("-", op1, op2, d)
\* operator*(const mpf_class &, const mpf_class &)
operator_mul(op1, op2, d) == binary_result("*", op1, op2, d)
\* operator/(const mpf_class &, const mpf_class &)
operator_div(op1, op2, d) == binary_result("/", op1, op2, d)
binary(opr, op1, op2, d) ==
    CASE opr = "+" -> operator_add(op1, op2, d)
      [] opr = "-" -> operator_sub(op1, op2, d)
      [] opr = "*" -> operator_mul(op1, op2, d)
      [] opr = "/" -> operator_div(op1, op2, d)
\* operator-(const mpf_class &op): mpf_class result(op.value); mpf_neg
operator_neg(op, d) == mpf_class_move(mpf_unary(mpf_class_mpf_t(op, d), op))

(***************************************************************************)
(* mpf_class (op) primitive and primitive (op) mpf_class                   *)
(***************************************************************************)
\* operator+=(mpf_class &lhs, const T rhs): mpf_class _rhs(rhs); mpf_add
compound_assign_prim(opr, lhs, d) == mpf_op(opr, lhs, lhs, mpf_class_prim(d))
\* operator+(const mpf_class &op1, const T op2)
operator_add_prim(op1, d) ==
    mpf_class_move(compound_assign_prim("+", mpf_class_copy(op1, d), d))
\* operator+(const T op1, const mpf_class &op2)
operator_prim_add(op2, d) ==
    IF header = "part_001"
    THEN operator_add_prim(op2, d)
    ELSE mpf_class_move(compound_assign(
             "+", mpf_class_prim(d), op2))
\* operator-(const mpf_class &op1, const T op2), operator*, operator/
operator_op_prim(opr, op1, d) ==
    IF header = "part_001"
    THEN LET result == mpf_class_prim(d)
         IN  mpf_class_move(mpf_op(opr, result, op1, result))
    ELSE mpf_class_move(compound_assign_prim(opr, mpf_class_copy(op1, d), d))
\* operator-(const T op1, const mpf_class &op2), operator/
operator_prim_op(opr, op2, d) ==
    IF header = "part_001"
    THEN LET result == mpf_class_prim(d)
         IN  mpf_class_move(mpf_op(opr, result, result, op2))
    ELSE mpf_class_move(compound_assign(opr, mpf_class_prim(d), op2))
\* operator*(const T op1, const mpf_class &op2)
operator_prim_mul(op2, d) ==
    IF header = "part_001"
    THEN operator_op_prim("*", op2, d)
    ELSE mpf_class_move(compound_assign("*", mpf_class_prim(d), op2))

\* the eight mixed expressions: f+n, f-n, f*n, f/n, n+f, n-f, n*f, n/f
MixedOps == {"f+n", "f-n", "f*n", "f/n", "n+f", "n-f", "n*f", "n/f"}
mixed(m, f, d) ==
    CASE m = "f+n" -> operator_add_prim(f, d)
      [] m = "f-n" -> operator_op_prim("-", f, d)
      [] m = "f*n" -> operator_op_prim("*", f, d)
      [] m = "f/n" -> operator_op_prim("/", f, d)
      [] m = "n+f" -> operator_prim_add(f, d)
      [] m = "n-f" -> operator_prim_op("-", f, d)
      [] m = "n*f" -> operator_prim_mul(f, d)
      [] m = "n/f" -> operator_prim_op("/", f, d)

(***************************************************************************)
(* Elementary functions used by the constants                              *)
(***************************************************************************)
\* sqrt(const mpf_class &op): mpf_class rop(op); mpf_sqrt(rop, op)
sqrt(op, d) == mpf_class_move(mpf_inexact(mpf_class_copy(op, d), op, op))
\* abs(const mpf_class &op): mpf_class rop(op); mpf_abs(rop, op)
abs(op, d) == mpf_class_move(mpf_unary(mpf_class_copy(op, d), op))
\* trunc, ceil, floor, neg: mpf_class rop(op); the engine routine into rop
trunc(op, d) == mpf_class_move(mpf_unary(mpf_class_copy(op, d), op))
ceil(op, d) == mpf_class_move(mpf_unary(mpf_class_copy(op, d), op))
floor(op, d) == mpf_class_move(mpf_unary(mpf_class_copy(op, d), op))
neg(op, d) == mpf_class_move(mpf_unary(mpf_class_copy(op, d), op))
\* a hypot whose rop stays as mpf_class rop; made it
hypot_default(op1, op2, d) ==
    mpf_class_move(move_assign(mpf_class_default(d),
        sqrt(operator_add(operator_mul(op1, op1, d),
                          operator_mul(op2, op2, d), d), d), d))
\* hypot: mpf_class rop; in standard mode mpf_init2(rop.value, largerprec);
\* rop = sqrt(op1 * op1 + op2 * op2); return rop;
hypot(op1, op2, d) ==
    mpf_class_move(move_assign(
        IF noprecchange THEN mpf_class_default(d)
                        ELSE mpf_init2(largerprec(op1, op2)),
        sqrt(operator_add(operator_mul(op1, op1, d),
                          operator_mul(op2, op2, d), d), d), d))
ElementaryFns == {"sqrt", "abs", "ceil", "floor", "trunc", "neg", "hypot"}
elementary(fn, op1, op2, d) ==
    CASE fn = "sqrt" -> sqrt(op1, d)
      [] fn = "abs" -> abs(op1, d)
      [] fn = "ceil" -> ceil(op1, d)
      [] fn = "floor" -> floor(op1, d)
      [] fn = "trunc" -> trunc(op1, d)
      [] fn = "neg" -> neg(op1, d)
      [] fn = "hypot" -> hypot(op1, op2, d)
\* mpf_class::div_2exp / mul_2exp: an exact scaling in place
div_2exp(self) == mpf_unary(self, self)
mul_2exp(self) == mpf_unary(self, self)

(***************************************************************************)
(* Process-wide state the functions below read and write                   *)
(***************************************************************************)
\* a function-local static that has not been constructed yet
Unconstructed == [mp_prec |-> 0, acc |-> 0]
\* no call recorded in this slot of the call window
NoCall == [dflt |-> 0, recomputed |-> FALSE]

Env ==
    [d |-> default_prec,
     pi_cached |-> pi_cached,
     pi_calculated |-> pi_calculated,
     calculated_pi_precision |-> calculated_pi_precision,
     log2_cached |-> log2_cached,
     log2_calculated |-> log2_calculated,
     calculated_log2_precision |-> calculated_log2_precision,
     aborted |-> aborted,
     calls |-> calls]

\* record one const_pi() call in the window of the two latest calls
LogCall(e, recomputed) ==
    [e EXCEPT !.calls = <<e.calls[2],
                          [dflt |-> mpf_get_default_prec(e.d),
                           recomputed |-> recomputed]>>]

(***************************************************************************)
(* The AGM loops. The local variables of a function are the fields of one  *)
(* record s; each operator below is one group of statements of the loop.   *)
(***************************************************************************)
\* a_next = (a + b) / two;   b_next = sqrt(a * b);
agm_next(s, d) ==
    [s EXCEPT !.a_next = move_assign(s.a_next,
                             operator_div(operator_add(s.a, s.b, d), s.two, d), d),
              !.b_next = move_assign(s.b_next,
                             sqrt(operator_mul(s.a, s.b, d), d), d)]
\* a = a_next;   b = b_next;
agm_update(s, d) ==
    [s EXCEPT !.a = copy_assign(s.a, s.a_next, d),
              !.b = copy_assign(s.b, s.b_next, d)]
\* one pass of the while loop of const_log2(), const_log2(mp_bitcnt_t), log()
agm_body(s, d) == agm_update(agm_next(s, d), d)
RECURSIVE agm_loop(_, _, _)
agm_loop(s, n, d) == IF n = 0 THEN s ELSE agm_loop(agm_body(s, d), n - 1, d)

\* t_next = t - p * (a - a_next) * (a - a_next);
pi_t_next(s, d) ==
    [s EXCEPT !.t_next = move_assign(s.t_next,
                  operator_sub(s.t,
                      operator_mul(
                          operator_mul(s.p, operator_sub(s.a, s.a_next, d), d),
                          operator_sub(s.a, s.a_next, d), d), d), d)]
\* p = two * p;   a = a_next;   b = b_next;   t = t_next;   pi_previous = tmp_pi;
pi_update(s, d) ==
    [s EXCEPT !.p = move_assign(s.p, operator_mul(s.two, s.p, d), d),
              !.a = copy_assign(s.a, s.a_next, d),
              !.b = copy_assign(s.b, s.b_next, d),
              !.t = copy_assign(s.t, s.t_next, d),
              !.pi_previous = copy_assign(s.pi_previous, s.tmp_pi, d)]
\* tmp_pi = (a + b) * (a + b) / (four * t);
pi_tmp_pi(s, d) ==
    [s EXCEPT !.tmp_pi = move_assign(s.tmp_pi,
                  operator_div(
                      operator_mul(operator_add(s.a, s.b, d),
                                   operator_add(s.a, s.b, d), d),
                      operator_mul(s.four, s.t, d), d), d)]
\* tmp = abs(tmp_pi - pi_previous);
pi_tmp(s, d) ==
    [s EXCEPT !.tmp = move_assign(s.tmp,
                  abs(operator_sub(s.tmp_pi, s.pi_previous, d), d), d)]
\* one pass of the while loop of const_pi() / const_pi(mp_bitcnt_t)
pi_body(s, d) ==
    pi_tmp(pi_tmp_pi(pi_update(pi_t_next(agm_next(s, d), d), d), d), d)
RECURSIVE pi_loop(_, _, _)
pi_loop(s, n, d) == IF n = 0 THEN s ELSE pi_loop(pi_body(s, d), n - 1, d)

(***************************************************************************)
(* const_pi                                                                *)
(***************************************************************************)
\* a test that recomputes on the first call only
pi_cache_miss_once(calculated, calculated_precision, _default_prec) ==
    ~calculated
\* the test that decides between recomputing and serving the cache
pi_cache_miss(calculated, calculated_precision, _default_prec) ==
    ~calculated \/ (calculated /\ calculated_precision # _default_prec)

\* mpf_class one(1.0);  mpf_class two(2.0);  mpf_class four(4.0);
const_pi_consts(d) ==
    [one |-> mpf_class_prim(d), two |-> mpf_class_prim(d),
     four |-> mpf_class_prim(d)]
\* the locals of const_pi(); epsilon = one; epsilon.div_2exp(_default_prec);
const_pi_locals(c, d) ==
    [two |-> c.two, four |-> c.four,
     a |-> mpf_class_copy(c.one, d),
     b |-> mpf_class_move(operator_div(c.one, sqrt(c.two, d), d)),
     t |-> mpf_class_prim(d),
     p |-> mpf_class_copy(c.one, d),
     a_next |-> mpf_class_default(d),
     b_next |-> mpf_class_default(d),
     t_next |-> mpf_class_default(d),
     tmp_pi |-> mpf_class_default(d),
     pi_previous |-> mpf_class_default(d),
     epsilon |-> div_2exp(mpf_class_copy(c.one, d)),
     tmp |-> mpf_class_default(d)]
\* pi_cached = mpf_class(); ... calculated = true; pi_cached = tmp_pi;
\* return pi_cached;
const_pi_store(e, s) ==
    LET stored == copy_assign(
                      move_assign(e.pi_cached, mpf_class_default(e.d), e.d),
                      s.tmp_pi, e.d)
    IN  [val |-> mpf_class_copy(stored, e.d),
         env |-> LogCall([e EXCEPT
                            !.pi_cached = stored,
                            !.calculated_pi_precision = mpf_get_default_prec(e.d),
                            !.pi_calculated = TRUE], TRUE)]
\* mpf_class const_pi(): n is the number of passes the convergence test takes
const_pi(e, n) ==
    IF pi_cache_miss(e.pi_calculated, e.calculated_pi_precision,
                     mpf_get_default_prec(e.d))
    THEN const_pi_store(e,
             pi_loop(const_pi_locals(const_pi_consts(e.d), e.d), n, e.d))
    ELSE [val |-> mpf_class_copy(e.pi_cached, e.d), env |-> LogCall(e, FALSE)]

\* whether every working variable reports the requested precision
all_prec(S, req_precision) == \A v \in S : mpf_get_prec(v) = req_precision
\* the value a call returns when an assert has ended the program
Aborted(e) == [val |-> Unconstructed, env |-> [e EXCEPT !.aborted = TRUE]]

\* mpf_class zero(0.0, req_precision); ... mpf_class four(4.0, req_precision);
const_pi_prec_consts(req_precision) ==
    [zero |-> mpf_class_prim_prec(req_precision),
     quarter |-> mpf_class_prim_prec(req_precision),
     one |-> mpf_class_prim_prec(req_precision),
     two |-> mpf_class_prim_prec(req_precision),
     four |-> mpf_class_prim_prec(req_precision)]
\* the locals of const_pi(mp_bitcnt_t)
const_pi_prec_locals(c, d) ==
    [one |-> c.one, two |-> c.two, four |-> c.four,
     calculated_pi |-> mpf_class_copy(c.zero, d),
     a |-> mpf_class_copy(c.one, d),
     b |-> mpf_class_move(operator_div(c.one, sqrt(c.two, d), d)),
     t |-> mpf_class_copy(c.quarter, d),
     p |-> mpf_class_copy(c.one, d),
     a_next |-> mpf_class_copy(c.zero, d),
     b_next |-> mpf_class_copy(c.zero, d),
     t_next |-> mpf_class_copy(c.zero, d),
     tmp_pi |-> mpf_class_copy(c.zero, d),
     pi_previous |-> mpf_class_copy(c.zero, d),
     epsilon |-> mpf_class_copy(c.zero, d),
     tmp |-> mpf_class_copy(c.zero, d)]
\* the variables the asserts of const_pi(mp_bitcnt_t) inspect
pi_work(s) ==
    {s.calculated_pi, s.a, s.b, s.t, s.p, s.a_next, s.b_next, s.t_next,
     s.tmp_pi, s.pi_previous, s.epsilon, s.tmp}
\* epsilon = one;   epsilon.div_2exp(req_precision);
const_pi_prec_epsilon(s, d) ==
    [s EXCEPT !.epsilon = div_2exp(copy_assign(s.epsilon, s.one, d))]
\* calculated_pi = tmp_pi;   the closing asserts;   return calculated_pi;
const_pi_prec_return(req_precision, e, s) ==
    LET done == [s EXCEPT !.calculated_pi =
                     copy_assign(s.calculated_pi, s.tmp_pi, e.d)]
    IN  IF ~all_prec(pi_work(done), req_precision)
        THEN Aborted(e)
        ELSE [val |-> mpf_class_move(done.calculated_pi), env |-> e]
\* the opening asserts, then the loop
const_pi_prec_run(req_precision, e, s, n) ==
    IF ~all_prec(pi_work(s), req_precision)
    THEN Aborted(e)
    ELSE const_pi_prec_return(req_precision, e,
             pi_loop(const_pi_prec_epsilon(s, e.d), n, e.d))
\* a const_pi(mp_bitcnt_t) that forwards to the memoized const_pi()
const_pi_prec_cached(req_precision, e, n) == const_pi(e, n)
\* mpf_class const_pi(mp_bitcnt_t req_precision)
const_pi_prec(req_precision, e, n) ==
    IF header = "part_001" /\ noprecchange
       /\ req_precision # mpf_get_default_prec(e.d)
    THEN Aborted(e)
    ELSE const_pi_prec_run(req_precision, e,
             const_pi_prec_locals(const_pi_prec_consts(req_precision), e.d), n)

(***************************************************************************)
(* const_log2                                                              *)
(***************************************************************************)
log2_cache_miss(calculated, calculated_precision, _default_prec) ==
    ~calculated \/ (calculated /\ calculated_precision # _default_prec)

\* static mpf_class log2_cached: constructed by the first call that runs
const_log2_held(e) ==
    IF e.log2_cached = Unconstructed
    THEN mpf_class_default(e.d) ELSE e.log2_cached
\* mpf_class one(1.0);   mpf_class two(2.0);
const_log2_consts(d) ==
    [one |-> mpf_class_prim(d), two |-> mpf_class_prim(d)]
\* the locals of const_log2()
const_log2_locals(c, d) ==
    [two |-> c.two,
     a |-> mpf_class_copy(c.one, d),
     epsilon |-> div_2exp(mpf_class_copy(c.one, d)),
     b |-> mpf_class_copy(div_2exp(mpf_class_copy(c.one, d)), d),
     sum |-> mpf_class_copy(c.one, d),
     a_next |-> mpf_class_default(d),
     b_next |-> mpf_class_default(d),
     tmp |-> mpf_class_default(d)]
\* a store that keeps the environment const_log2() was entered with
const_log2_store_entered(e, s, r) ==
    LET stored == move_assign(
                      move_assign(const_log2_held(e),
                                  mpf_class_default(e.d), e.d),
                      operator_div(r.val,
                          operator_mul(mpf_class_prim(e.d), s.a, e.d), e.d),
                      e.d)
    IN  [val |-> mpf_class_copy(stored, e.d),
         env |-> [e EXCEPT
                    !.log2_cached = stored,
                    !.calculated_log2_precision = mpf_get_default_prec(e.d),
                    !.log2_calculated = TRUE]]
\* log2_cached = mpf_class(); ...
\* log2_cached = const_pi() / (mpf_class(_default_prec) * a);
\* calculated = true;   return log2_cached;
const_log2_store(e, s, r) ==
    LET stored == move_assign(
                      move_assign(const_log2_held(e),
                                  mpf_class_default(e.d), e.d),
                      operator_div(r.val,
                          operator_mul(mpf_class_prim(e.d), s.a, e.d), e.d),
                      e.d)
    IN  [val |-> mpf_class_copy(stored, e.d),
         env |-> [r.env EXCEPT
                    !.log2_cached = stored,
                    !.calculated_log2_precision = mpf_get_default_prec(e.d),
                    !.log2_calculated = TRUE]]
\* mpf_class const_log2()
const_log2(e, n) ==
    IF log2_cache_miss(e.log2_calculated, e.calculated_log2_precision,
                       mpf_get_default_prec(e.d))
    THEN const_log2_store(e,
             agm_loop(const_log2_locals(const_log2_consts(e.d), e.d), n, e.d),
             const_pi(e, n))
    ELSE [val |-> mpf_class_copy(const_log2_held(e), e.d),
          env |-> [e EXCEPT !.log2_cached = const_log2_held(e)]]

\* mpf_class zero(0.0, req_precision); ... mpf_class two(2.0, req_precision);
const_log2_prec_consts(req_precision) ==
    [zero |-> mpf_class_prim_prec(req_precision),
     one |-> mpf_class_prim_prec(req_precision),
     two |-> mpf_class_prim_prec(req_precision)]
\* the locals of const_log2(mp_bitcnt_t)
const_log2_prec_locals(c, d) ==
    [one |-> c.one, two |-> c.two,
     log2 |-> mpf_class_copy(c.zero, d),
     epsilon |-> mpf_class_copy(c.one, d),
     tmp |-> mpf_class_copy(c.zero, d),
     a |-> mpf_class_copy(c.one, d),
     b |-> mpf_class_copy(c.one, d),
     a_next |-> mpf_class_copy(c.zero, d),
     b_next |-> mpf_class_copy(c.zero, d),
     sum |-> mpf_class_copy(c.one, d)]
\* b.div_2exp((req_precision / 2) - 2);   epsilon.div_2exp(req_precision);
const_log2_prec_scale(s) ==
    [s EXCEPT !.b = div_2exp(s.b), !.epsilon = div_2exp(s.epsilon)]
\* the variables the asserts of const_log2(mp_bitcnt_t) inspect
log2_work(s) ==
    {s.log2, s.epsilon, s.tmp, s.sum, s.a, s.b, s.a_next, s.b_next,
     s.one, s.two}
\* log2 = const_pi(req_precision) / (mpf_class(req_precision, req_precision) * a);
\* the closing asserts;   return log2;
const_log2_prec_return(req_precision, e, s, r) ==
    LET done == [s EXCEPT !.log2 = move_assign(s.log2,
                     operator_div(r.val,
                         operator_mul(mpf_class_prim_prec(req_precision),
                                      s.a, e.d), e.d), e.d)]
    IN  IF r.env.aborted
        THEN Aborted(e)
        ELSE IF ~all_prec(log2_work(done)
                          \cup {r.val, mpf_class_prim_prec(req_precision)},
                          req_precision)
        THEN Aborted(e)
        ELSE [val |-> mpf_class_move(done.log2), env |-> r.env]
\* the opening asserts, then the loop
const_log2_prec_run(req_precision, e, s, n) ==
    IF ~all_prec(log2_work(s), req_precision)
    THEN Aborted(e)
    ELSE const_log2_prec_return(req_precision, e, agm_loop(s, n, e.d),
                                const_pi_prec(req_precision, e, n))
\* mp_bitcnt_t is an unsigned long: its arithmetic is modulo 2^64. The model
\* keeps a quarter of the bits; every precision here is far below 2^16.
BitCntRange == 2 ^ (GMP_NUMB_BITS \div 4)
\* (_default_prec / 2) - 2   and   (req_precision / 2) - 2
log2_shift_count(prec) == ((prec \div 2) - 2) % BitCntRange
\* mpf_class const_log2(mp_bitcnt_t req_precision)
const_log2_prec(req_precision, e, n) ==
    IF header = "part_001" /\ noprecchange
       /\ req_precision # mpf_get_default_prec(e.d)
    THEN Aborted(e)
    ELSE const_log2_prec_run(req_precision, e,
             const_log2_prec_scale(
                 const_log2_prec_locals(
                     const_log2_prec_consts(req_precision), e.d)), n)

(***************************************************************************)
(* log and exp                                                             *)
(***************************************************************************)
\* mpf_class zero(0.0, req_precision); ... mpf_class four(4.0, req_precision);
log_consts(req_precision) ==
    [zero |-> mpf_class_prim_prec(req_precision),
     one |-> mpf_class_prim_prec(req_precision),
     two |-> mpf_class_prim_prec(req_precision),
     four |-> mpf_class_prim_prec(req_precision)]
\* the locals of log() of src/unnamed/part_001
log_locals(c, rp, rl, d) ==
    [one |-> c.one, two |-> c.two, four |-> c.four,
     _log |-> mpf_class_copy(c.zero, d),
     epsilon |-> mpf_class_copy(c.one, d),
     tmp |-> mpf_class_copy(c.zero, d),
     a |-> mpf_class_copy(c.one, d),
     b |-> mpf_class_copy(c.one, d),
     a_next |-> mpf_class_copy(c.zero, d),
     b_next |-> mpf_class_copy(c.zero, d),
     s |-> mpf_class_copy(c.one, d),
     _pi |-> mpf_class_move(rp.val),
     _log2 |-> mpf_class_move(rl.val)]
\* the variables the asserts of log() inspect
log_work(f) ==
    {f._log, f.epsilon, f.tmp, f.a, f.b, f.a_next, f.b_next, f.s,
     f._pi, f._log2}
\* b = one;   b.mul_2exp(...);
log_b(f, d) == [f EXCEPT !.b = mul_2exp(copy_assign(f.b, f.one, d))]
\* s = b / x;
log_s_div(f, x, d) == [f EXCEPT !.s = move_assign(f.s, operator_div(f.b, x, d), d)]
\* s = x * b;
log_s_mul(f, x, d) == [f EXCEPT !.s = move_assign(f.s, operator_mul(x, f.b, d), d)]
\* b = four / s;   epsilon.div_2exp(req_precision);
log_b_div(f, d) ==
    [f EXCEPT !.b = move_assign(f.b, operator_div(f.four, f.s, d), d),
              !.epsilon = div_2exp(f.epsilon)]
\* the statements of log() between the opening asserts and the loop
log_scale(f, x, d) ==
    log_b_div(log_s_mul(log_b(log_s_div(log_b(f, d), x, d), d), x, d), d)
\* _log = _pi / (two * b) - m * _log2;
log_result(f, d) ==
    [f EXCEPT !._log = move_assign(f._log,
                  operator_sub(
                      operator_div(f._pi, operator_mul(f.two, f.b, d), d),
                      operator_prim_mul(f._log2, d), d), d)]
\* the closing asserts;   return _log;
log_return(req_precision, e, f) ==
    IF ~all_prec(log_work(f), req_precision)
    THEN Aborted(e)
    ELSE [val |-> mpf_class_move(f._log), env |-> e]
\* the opening asserts, the scaling, the loop and the result
log_run(x, e, f, n) ==
    IF ~all_prec(log_work(f), mpf_get_prec(x))
    THEN Aborted(e)
    ELSE log_return(mpf_get_prec(x), e,
             log_result(agm_loop(log_scale(f, x, e.d), n, e.d), e.d))
\* mpf_class _pi(const_pi(req_precision)); mpf_class _log2(const_log2(req_precision));
log_declared(x, e, rp, rl, n) ==
    IF rp.env.aborted \/ rl.env.aborted
    THEN Aborted(e)
    ELSE log_run(x, e,
             log_locals(log_consts(mpf_get_prec(x)), rp, rl, e.d), n)
\* mpf_class log(const mpf_class &x) of src/unnamed/part_001
log_part_001(x, e, n) ==
    IF noprecchange /\ mpf_get_prec(x) # mpf_get_default_prec(e.d)
    THEN Aborted(e)
    ELSE log_declared(x, e, const_pi_prec(mpf_get_prec(x), e, n),
                      const_log2_prec(mpf_get_prec(x), e, n), n)

\* mpf_class zero(0.0); ... mpf_class four(4.0);
log_mkII_consts(d) ==
    [zero |-> mpf_class_prim(d), one |-> mpf_class_prim(d),
     two |-> mpf_class_prim(d), four |-> mpf_class_prim(d)]
\* the locals of log() of src/gmpxx_mkII.h
log_mkII_locals(c, d) ==
    [one |-> c.one, two |-> c.two, four |-> c.four,
     _log |-> mpf_class_copy(c.zero, d),
     epsilon |-> mpf_class_copy(c.one, d),
     tmp |-> mpf_class_copy(c.zero, d),
     a |-> mpf_class_copy(c.one, d),
     b |-> mpf_class_copy(c.one, d),
     a_next |-> mpf_class_copy(c.zero, d),
     b_next |-> mpf_class_copy(c.zero, d),
     s |-> mpf_class_copy(c.one, d)]
\* b.mul_2exp(precision / 2);
log_mkII_b(f) == [f EXCEPT !.b = mul_2exp(f.b)]
\* b = 1.0;   b.mul_2exp(m);
log_mkII_b_prim(f) == [f EXCEPT !.b = mul_2exp(assign_prim(f.b))]
\* the statements of log() before the loop
log_mkII_scale(f, x, d) ==
    log_b_div(log_s_mul(log_mkII_b_prim(log_s_div(log_mkII_b(f), x, d)), x, d), d)
\* _log = const_pi() / (two * b) - m * const_log2();   return _log;
log_mkII_result(f, rp, rl, d) ==
    [val |-> mpf_class_move(
                 move_assign(f._log,
                     operator_sub(
                         operator_div(rp.val, operator_mul(f.two, f.b, d), d),
                         operator_prim_mul(rl.val, d), d), d)),
     env |-> rl.env]
\* the two cached constants, const_log2() after const_pi()
log_mkII_constants(f, rp, n, d) ==
    log_mkII_result(f, rp, const_log2(rp.env, n), d)
\* the body of log() once the default precision is set
log_mkII_run(x, e, n) ==
    log_mkII_constants(
        agm_loop(log_mkII_scale(
                     log_mkII_locals(log_mkII_consts(e.d), e.d), x, e.d),
                 n, e.d),
        const_pi(e, n), n, e.d)
\* mpf_class log(const mpf_class &x) of src/gmpxx_mkII.h
log_gmpxx_mkII(x, e, n) ==
    log_mkII_run(x, [e EXCEPT !.d = mpf_set_default_prec(1000)], n)

log(x, e, n) ==
    IF header = "part_001" THEN log_part_001(x, e, n)
    ELSE log_gmpxx_mkII(x, e, n)

\* mpf_class zero(0.0, req_precision);   mpf_class one(1.0, req_precision);
exp_consts(req_precision) ==
    [zero |-> mpf_class_prim_prec(req_precision),
     one |-> mpf_class_prim_prec(req_precision)]
\* the locals of exp()
exp_locals(c, x, rp, rl, d) ==
    [one |-> c.one,
     _exp |-> mpf_class_copy(c.one, d),
     _x |-> mpf_class_copy(x, d),
     r |-> mpf_class_copy(c.zero, d),
     _pi |-> mpf_class_move(rp.val),
     _log2 |-> mpf_class_move(rl.val)]
\* if (x < zero) _x = -_x;
exp_abs(f, negative, d) ==
    IF negative
    THEN [f EXCEPT !._x = move_assign(f._x, operator_neg(f._x, d), d)]
    ELSE f
\* _x.div_2exp(k);   _log2.div_2exp(k);
exp_scale(f) ==
    [f EXCEPT !._x = div_2exp(f._x), !._log2 = div_2exp(f._log2)]
\* r = _x - n * _log2;
exp_r(f, d) ==
    [f EXCEPT !.r = move_assign(f.r,
                  operator_sub(f._x, operator_prim_mul(f._log2, d), d), d)]
\* if (k > 0) { ... } else { ... r = _x; ... }
exp_reduce(f, reduced, d) ==
    IF reduced
    THEN exp_r(exp_scale(f), d)
    ELSE [f EXCEPT !.r = copy_assign(f.r, f._x, d)]
\* for (int i = l; i > 0; i--) _exp = one + ((r * _exp) / mpf_class(i, req_precision));
RECURSIVE exp_series(_, _, _, _)
exp_series(f, req_precision, i, d) ==
    IF i = 0 THEN f
    ELSE exp_series(
             [f EXCEPT !._exp = move_assign(f._exp,
                  operator_add(f.one,
                      operator_div(operator_mul(f.r, f._exp, d),
                                   mpf_class_prim_prec(req_precision), d), d), d)],
             req_precision, i - 1, d)
\* for (int i = 0; i < k; i++) _exp = _exp * _exp;
RECURSIVE exp_square(_, _, _)
exp_square(f, i, d) ==
    IF i = 0 THEN f
    ELSE exp_square(
             [f EXCEPT !._exp = move_assign(f._exp,
                                    operator_mul(f._exp, f._exp, d), d)],
             i - 1, d)
\* _exp.mul_2exp(n) or _exp.div_2exp(-n);   if (x < zero) _exp = one / _exp;
exp_finish(f, negative, d) ==
    IF negative
    THEN [f EXCEPT !._exp = move_assign(mul_2exp(f._exp),
                                operator_div(f.one, mul_2exp(f._exp), d), d)]
    ELSE [f EXCEPT !._exp = mul_2exp(f._exp)]
\* the body of exp() after its declarations: l passes of the series and,
\* when the argument was reduced, k squarings
exp_run(f, req_precision, negative, reduced, n, d) ==
    exp_finish(
        exp_square(
            exp_series(exp_reduce(exp_abs(f, negative, d), reduced, d),
                       req_precision, n, d),
            IF reduced THEN n ELSE 0, d),
        negative, d)
\* mpf_class _pi(const_pi(req_precision)); mpf_class _log2(const_log2(req_precision));
exp_declared(x, negative, reduced, e, rp, rl, n) ==
    IF rp.env.aborted \/ rl.env.aborted
    THEN Aborted(e)
    ELSE [val |-> mpf_class_move(
                      exp_run(exp_locals(exp_consts(mpf_get_prec(x)), x,
                                         rp, rl, e.d),
                              mpf_get_prec(x), negative, reduced, n, e.d)._exp),
          env |-> e]
\* mpf_class exp(const mpf_class &x) of src/unnamed/part_001
\* negative: x < 0; reduced: the binary exponent k of |x| is positive
exp(x, negative, reduced, e, n) ==
    IF noprecchange /\ mpf_get_prec(x) # mpf_get_default_prec(e.d)
    THEN Aborted(e)
    ELSE exp_declared(x, negative, reduced, e,
                      const_pi_prec(mpf_get_prec(x), e, n),
                      const_log2_prec(mpf_get_prec(x), e, n), n)

(***************************************************************************)
(* The numbers of the convergence loops of src/unnamed/part_001. A limb    *)
(* of this part of the model is LoopLimb bits wide, one sixteenth of the   *)
(* engine's, so that the products stay inside TLC's integers. A variable   *)
(* of precision prec bits keeps one limb more than prec bits after the     *)
(* point, as the engine's prec + 1 limbs do: a number is its numerator     *)
(* over 2^(prec + LoopLimb), and every operation truncates its result.     *)
(***************************************************************************)
LoopLimb == GMP_NUMB_BITS \div 16
\* the working precisions: LoopLimb, 2 * LoopLimb, ...
LoopPrecs == {LoopLimb * k : k \in 1..MaxLoopLimbs}

Pow2(n) == 2 ^ n
\* the numerator of 1.0
Unit(prec) == Pow2(prec + LoopLimb)
\* mpf_class(n, prec) of an integer n
num_prim(n, prec) == n * Unit(prec)
\* mpf_mul
num_mul(u, v, prec) == (u * v) \div Unit(prec)
\* mpf_div
num_div(u, v, prec) == (u * Unit(prec)) \div v
\* the largest r of lo..hi with r * r <= n
RECURSIVE Root(_, _, _)
Root(n, lo, hi) ==
    IF lo = hi THEN lo
    ELSE CHOOSE r \in {IF mid * mid <= n THEN Root(n, mid, hi)
                                         ELSE Root(n, lo, mid - 1) :
                       mid \in {(lo + hi + 1) \div 2}} : TRUE
\* mpf_sqrt of a number below 4
num_sqrt(u, prec) ==
    CHOOSE r \in {Root(n, 0, 2 * Unit(prec)) : n \in {u * Unit(prec)}} : TRUE
\* mpf_abs
num_abs(u) == IF u < 0 THEN -u ELSE u
\* mpf_div_2exp and mpf_mul_2exp
num_div_2exp(u, n) == u \div Pow2(n)
num_mul_2exp(u, n) == u * Pow2(n)
\* mpf_get_d_2exp: the m with 1/2 <= u / 2^m < 1
RECURSIVE num_get_d_2exp(_, _)
num_get_d_2exp(u, unit) ==
    IF u = 0 THEN 0
    ELSE IF u >= unit THEN 1 + num_get_d_2exp(u, 2 * unit)
    ELSE IF 2 * u < unit THEN num_get_d_2exp(2 * u, unit) - 1
    ELSE 0

LoopFns == {"const_pi", "const_pi_prec", "const_log2", "const_log2_prec", "log"}
\* no function in progress
Idle ==
    [fn |-> "none", pc |-> "idle", prec |-> 0, x |-> 0, m |-> 0,
     a |-> 0, b |-> 0, t |-> 0, p |-> 0, tmp_pi |-> 0, pi_previous |-> 0,
     epsilon |-> 0, converged |-> FALSE, result |-> 0]

\* const_pi() and const_pi(req_precision) up to the loop:
\* a(one), b(one / sqrt(two)), t(0.25), p(one);
\* epsilon = one;   epsilon.div_2exp(req_precision);
pi_init(fn, prec) ==
    [Idle EXCEPT !.fn = fn, !.pc = "loop", !.prec = prec,
                 !.a = num_prim(1, prec),
                 !.b = num_div(num_prim(1, prec),
                               num_sqrt(num_prim(2, prec), prec), prec),
                 !.t = num_prim(1, prec) \div 4,
                 !.p = num_prim(1, prec),
                 !.epsilon = num_div_2exp(num_prim(1, prec), prec)]
\* a_next = (a + b) / two;   b_next = sqrt(a * b);
a_next(f) == num_div(f.a + f.b, num_prim(2, f.prec), f.prec)
b_next(f) == num_sqrt(num_mul(f.a, f.b, f.prec), f.prec)
\* t_next = t - p * (a - a_next) * (a - a_next);
t_next(f) ==
    f.t - num_mul(num_mul(f.p, f.a - a_next(f), f.prec),
                  f.a - a_next(f), f.prec)
\* p = two * p;   a = a_next;   b = b_next;   t = t_next;
\* pi_previous = tmp_pi;
pi_advance(f) ==
    [f EXCEPT !.p = num_mul(num_prim(2, f.prec), f.p, f.prec),
              !.a = a_next(f), !.b = b_next(f), !.t = t_next(f),
              !.pi_previous = f.tmp_pi]
\* tmp_pi = (a + b) * (a + b) / (four * t);
pi_estimate(f) ==
    [f EXCEPT !.tmp_pi =
        num_div(num_mul(f.a + f.b, f.a + f.b, f.prec),
                num_mul(num_prim(4, f.prec), f.t, f.prec), f.prec)]
\* if (abs(tmp_pi - pi_previous) < epsilon) converged = true;
pi_test(f) ==
    [f EXCEPT !.converged = num_abs(f.tmp_pi - f.pi_previous) < f.epsilon]
\* one pass of the loop of const_pi
pi_pass(f) ==
    CHOOSE r \in {pi_test(h) : h \in {pi_estimate(g) : g \in {pi_advance(f)}}} : TRUE
\* while (!converged) { ... }
RECURSIVE pi_while(_)
pi_while(f) ==
    IF f.converged THEN f
    ELSE CHOOSE r \in {pi_while(g) : g \in {pi_pass(f)}} : TRUE
\* the number const_pi(prec) returns, for every working precision
calculated_pi ==
    [prec \in LoopPrecs |-> pi_while(pi_init("const_pi_prec", prec)).tmp_pi]
pi_value(prec) == calculated_pi[prec]

\* const_log2() up to the loop: epsilon = one;
\* epsilon.div_2exp((_default_prec / 2) - 2);   mpf_class b = epsilon;
log2_init(prec) ==
    [Idle EXCEPT !.fn = "const_log2", !.pc = "loop", !.prec = prec,
                 !.a = num_prim(1, prec),
                 !.epsilon = num_div_2exp(num_prim(1, prec), (prec \div 2) - 2),
                 !.b = num_div_2exp(num_prim(1, prec), (prec \div 2) - 2)]
\* const_log2(req_precision) up to the loop:
\* b.div_2exp((req_precision / 2) - 2);   epsilon.div_2exp(req_precision);
log2_prec_init(prec) ==
    [Idle EXCEPT !.fn = "const_log2_prec", !.pc = "loop", !.prec = prec,
                 !.a = num_prim(1, prec),
                 !.b = num_div_2exp(num_prim(1, prec), (prec \div 2) - 2),
                 !.epsilon = num_div_2exp(num_prim(1, prec), prec)]
\* a pass that never tests for convergence
agm_pass_untested(f) ==
    [f EXCEPT !.a = a_next(f), !.b = b_next(f)]
\* one pass of the loop of const_log2 and of log:
\* if (abs(a - b) < epsilon) converged = true;   a = a_next;   b = b_next;
agm_pass(f) ==
    [f EXCEPT !.converged = num_abs(f.a - f.b) < f.epsilon,
              !.a = a_next(f), !.b = b_next(f)]
RECURSIVE agm_while(_)
agm_while(f) ==
    IF f.converged THEN f
    ELSE CHOOSE r \in {agm_while(g) : g \in {agm_pass(f)}} : TRUE
\* const_pi(req_precision) / (mpf_class(req_precision, req_precision) * a)
log2_quotient(f) ==
    num_div(pi_value(f.prec),
            num_mul(num_prim(f.prec, f.prec), f.a, f.prec), f.prec)
\* the number const_log2(prec) returns, for every working precision
calculated_log2 ==
    [prec \in LoopPrecs |-> log2_quotient(agm_while(log2_prec_init(prec)))]
log2_value(prec) == calculated_log2[prec]

\* b = one;   b.mul_2exp(req_precision / 2);   s = b / x;
log_first_s(x, prec) ==
    num_div(num_mul_2exp(num_prim(1, prec), prec \div 2), x, prec)
\* mpf_get_d_2exp(&m, s.get_mpf_t());
log_m(x, prec) == num_get_d_2exp(log_first_s(x, prec), Unit(prec))
\* b = one;   b.mul_2exp(m);   s = x * b;   b = four / s;
log_start_b(x, prec) ==
    num_div(num_prim(4, prec),
            num_mul(x, num_mul_2exp(num_prim(1, prec), log_m(x, prec)), prec),
            prec)
\* log(x) up to the loop;   epsilon.div_2exp(req_precision);
log_init(x, prec) ==
    [Idle EXCEPT !.fn = "log", !.pc = "loop", !.prec = prec, !.x = x,
                 !.m = log_m(x, prec),
                 !.a = num_prim(1, prec),
                 !.b = log_start_b(x, prec),
                 !.epsilon = num_div_2exp(num_prim(1, prec), prec)]
\* _log = _pi / (two * b) - m * _log2;
log_difference(f) ==
    num_div(pi_value(f.prec),
            num_mul(num_prim(2, f.prec), f.b, f.prec), f.prec)
    - f.m * log2_value(f.prec)

\* the arguments of log: the quarters 1/4, 2/4, ..., all of them numbers
\* whose m is not negative (mul_2exp takes an unsigned count)
LogInputs(prec) ==
    {x \in {k * (Unit(prec) \div 4) : k \in 1..MaxLogArg} : log_m(x, prec) >= 0}

\* the frame of fn at the head of its loop
loop_init(fn, x, prec) ==
    IF fn \in {"const_pi", "const_pi_prec"} THEN pi_init(fn, prec)
    ELSE IF fn = "const_log2" THEN log2_init(prec)
    ELSE IF fn = "const_log2_prec" THEN log2_prec_init(prec)
    ELSE log_init(x, prec)
\* one pass of the loop of fn
loop_pass(f) ==
    IF f.fn \in {"const_pi", "const_pi_prec"} THEN pi_pass(f) ELSE agm_pass(f)
\* the statements after the loop
loop_return(f) ==
    [f EXCEPT !.pc = "done",
              !.result = IF f.fn \in {"const_pi", "const_pi_prec"} THEN f.tmp_pi
                         ELSE IF f.fn = "log" THEN log_difference(f)
                         ELSE log2_quotient(f)]

(***************************************************************************)
(* exp() of src/unnamed/part_001. The argument and the reduced argument r  *)
(* are numbers as above. The accumulator _exp is kept exactly: after the   *)
(* series it is a polynomial in r whose coefficient of r^j is              *)
(* 1 / poly[j + 1]; the squarings raise it to the power power, the         *)
(* scaling multiplies it by 2^shift, and inverse says one / _exp was taken.*)
(***************************************************************************)
\* mpf_get_d_2exp(&k, _x.get_mpf_t());   if (k > 0) ... else k = 0;
exp_k(x, prec) ==
    IF num_get_d_2exp(num_abs(x), Unit(prec)) > 0
    THEN num_get_d_2exp(num_abs(x), Unit(prec)) ELSE 0
\* _x.div_2exp(k);
exp_x(x, prec) == num_div_2exp(num_abs(x), exp_k(x, prec))
\* _log2.div_2exp(k);
exp_log2(x, prec) == num_div_2exp(log2_value(prec), exp_k(x, prec))
\* n = floor(_x / _log2).get_si();   else n = 0;
exp_n(x, prec) ==
    IF exp_k(x, prec) > 0
    THEN num_div(exp_x(x, prec), exp_log2(x, prec), prec) \div Unit(prec)
    ELSE 0
\* a reduction that leaves the sign on the argument
exp_remainder_signed(x, prec) ==
    IF exp_k(x, prec) > 0
    THEN exp_x(x, prec) - exp_n(x, prec) * exp_log2(x, prec)
    ELSE x
\* r = _x - n * _log2;   else r = _x;
exp_remainder(x, prec) ==
    IF exp_k(x, prec) > 0
    THEN exp_x(x, prec) - exp_n(x, prec) * exp_log2(x, prec)
    ELSE num_abs(x)
\* l = req_precision / k;   else l = req_precision;
exp_l(x, prec) ==
    IF exp_k(x, prec) > 0 THEN prec \div exp_k(x, prec) ELSE prec
\* exp(x) up to its first loop: mpf_class _exp(one);
exp_init(x, prec) ==
    [fn |-> "exp", pc |-> "series", prec |-> prec, x |-> x,
     k |-> exp_k(x, prec), l |-> exp_l(x, prec), n |-> exp_n(x, prec),
     r |-> exp_remainder(x, prec), i |-> exp_l(x, prec), squarings |-> 0,
     poly |-> <<1>>, power |-> 1, shift |-> 0, inverse |-> FALSE]
\* a pass that divides by i + 1
exp_pass_next_index(f) ==
    [f EXCEPT !.poly = <<1>> \o [j \in 1..Len(f.poly) |-> f.poly[j] * (f.i + 1)],
              !.i = f.i - 1]
\* _exp = one + ((r * _exp) / mpf_class(i, req_precision));   i--
exp_pass(f) ==
    [f EXCEPT !.poly = <<1>> \o [j \in 1..Len(f.poly) |-> f.poly[j] * f.i],
              !.i = f.i - 1]
\* _exp = _exp * _exp;   i++
exp_squaring(f) ==
    [f EXCEPT !.power = 2 * f.power, !.squarings = f.squarings + 1,
              !.pc = "square"]
\* if (n > 0) _exp.mul_2exp(n);   if (n < 0) _exp.div_2exp(-n);
\* if (x < zero) _exp = one / _exp;   return _exp;
exp_return(f) ==
    [f EXCEPT !.shift = f.n, !.inverse = f.x < 0, !.pc = "done"]

\* the arguments of exp: 0, 1/4, -1/4, 2/4, ...
ExpInputs(prec) ==
    {q * (Unit(prec) \div 4) : q \in (-MaxExpArg)..MaxExpArg}

(***************************************************************************)
(* operator<< of src/unnamed/part_001. A text is a sequence of characters. *)
(* A value is given by what the engine reports of it: its sign, the digit  *)
(* string D and the point position exp of mpf_get_str (the value is        *)
(* 0.D * base^exp). The text gmp_asprintf produces is the engine's: its    *)
(* body is an input.                                                       *)
(***************************************************************************)
Rep(c, n) == [i \in 1..n |-> c]
\* std::string::insert(pos, t)
Insert(s, pos, t) == SubSeq(s, 1, pos) \o t \o SubSeq(s, pos + 1, Len(s))
\* formatted.find('.') != std::string::npos
HasPoint(s) == \E i \in 1..Len(s) : s[i] = "."
DigitChars == <<"0", "1", "2", "3", "4", "5", "6", "7", "8", "9">>
\* adjusted_exp < 10 && adjusted_exp > -10 ? "0" + std::to_string(adjusted_exp)
\*                                         : std::to_string(adjusted_exp)
exp_str(n) ==
    IF n < 10 THEN <<"0", DigitChars[n + 1]>>
    ELSE <<DigitChars[(n \div 10) + 1], DigitChars[(n % 10) + 1]>>
\* int effective_prec = (prec == 0) ? 6 : prec;
dec_effective_prec(prec) == IF prec = 0 THEN DecDefaultPrec ELSE prec

\* if (exp <= 0) { ... } else if (size_t(exp) > dec_str.length()) { ... } else { ... }
dec_positional(v) ==
    IF v.exp <= 0
    THEN <<"0", ".">> \o Rep("0", (-v.exp) + 1) \o v.D
    ELSE IF v.exp > Len(v.D)
    THEN SubSeq(v.D, 1, 1) \o <<".">> \o SubSeq(v.D, 2, Len(v.D))
         \o <<"e", "+">> \o exp_str(v.exp - 1)
    ELSE SubSeq(v.D, 1, v.exp)
         \o (IF v.exp < Len(v.D)
             THEN <<".">> \o SubSeq(v.D, v.exp + 1, Len(v.D)) ELSE <<>>)
\* if (is_showpoint && formatted_dec.find('.') == npos) { formatted_dec += ".";
\*     while (formatted_dec.length() < effective_prec + 1) formatted_dec += '0'; }
dec_showpoint(s, f, prec) ==
    IF f.showpoint /\ ~HasPoint(s)
    THEN s \o <<".">>
         \o Rep("0", Max2(0, dec_effective_prec(prec) + 1 - (Len(s) + 1)))
    ELSE s
\* if (mpf_sgn(value) < 0) formatted.insert(0, "-");
with_minus(s, v) == IF v.sgn < 0 THEN <<"-">> \o s ELSE s
\* if (width > formatted_dec.size()) { left / internal / otherwise }
dec_pad(s, f, width, fill) ==
    IF width <= Len(s) THEN s
    ELSE IF f.adjust = "left" THEN s \o Rep(fill, width - Len(s))
    ELSE IF f.adjust = "internal"
    THEN Insert(s, IF s[1] \in {"-", "+"} THEN 1 ELSE 0, Rep(fill, width - Len(s)))
    ELSE Rep(fill, width - Len(s)) \o s
\* if (formatted.back() == '.') formatted.erase(formatted.size() - 1);
erase_trailing_point(s) ==
    IF s[Len(s)] = "." THEN SubSeq(s, 1, Len(s) - 1) ELSE s
\* std::string to_dec_string_default(value, flags, width, prec, fill)
to_dec_string_default(v, f, width, prec, fill) ==
    IF f.showpoint
    THEN dec_pad(with_minus(dec_showpoint(dec_positional(v), f, prec), v),
                 f, width, fill)
    ELSE erase_trailing_point(
             dec_pad(with_minus(dec_positional(v), v), f, width, fill))

\* if (exp <= 0) { ... } else if (size_t(exp) > hex_str.length()) { ... } else { ... }
hex_positional(v) ==
    IF v.exp <= 0
    THEN <<"0", ".">> \o Rep("0", (-v.exp) + 1) \o v.D
    ELSE IF v.exp > Len(v.D)
    THEN v.D \o Rep("0", v.exp - Len(v.D))
    ELSE SubSeq(v.D, 1, v.exp)
         \o (IF v.exp < Len(v.D)
             THEN <<".">> \o SubSeq(v.D, v.exp + 1, Len(v.D)) ELSE <<>>)
\* if (is_showbase) formatted_hex.insert(0, "0x");
hex_showbase(s, f) == IF f.showbase THEN <<"0", "x">> \o s ELSE s
\* if (width > formatted_hex.size()) { left / internal after "0x" or "-0x" /
\* otherwise }
hex_pad(s, f, width, fill) ==
    IF width <= Len(s) THEN s
    ELSE IF f.adjust = "left" THEN s \o Rep(fill, width - Len(s))
    ELSE IF f.adjust = "internal" /\ Len(s) >= 2 /\ SubSeq(s, 1, 2) = <<"0", "x">>
    THEN Insert(s, 2, Rep(fill, width - Len(s)))
    ELSE IF f.adjust = "internal" /\ Len(s) >= 3
            /\ SubSeq(s, 1, 3) = <<"-", "0", "x">>
    THEN Insert(s, 3, Rep(fill, width - Len(s)))
    ELSE Rep(fill, width - Len(s)) \o s
\* std::string to_hex_string_default(value, flags, width, prec, fill)
to_hex_string_default(v, f, width, prec, fill) ==
    erase_trailing_point(
        hex_pad(with_minus(hex_showbase(hex_positional(v), f), v),
                f, width, fill))

\* gmp_asprintf(&str, format, op): the sign, "0x" for the format %#Fa, and
\* the engine's digits
gmp_asprintf(v, alternate, body) ==
    (IF v.sgn < 0 THEN <<"-">> ELSE <<>>)
    \o (IF alternate THEN <<"0", "x">> ELSE <<>>) \o body
\* print_mpf up to std::string s(str): the branch taken for op and the flags
print_str(v, f, width, prec, fill, body) ==
    IF v.sgn = 0
    THEN IF f.base = "dec" /\ f.notation = "default" /\ ~f.showpoint
         THEN <<"0">>
         ELSE gmp_asprintf(v, FALSE, body)
    ELSE IF f.base = "dec" /\ f.notation = "default"
    THEN to_dec_string_default(v, f, width, prec, fill)
    ELSE IF f.base = "hex" /\ f.notation = "default"
    THEN to_hex_string_default(v, f, width, prec, fill)
    ELSE gmp_asprintf(v, f.base = "hex", body)
\* if (flags & std::ios::showpos && mpf_sgn(op) >= 0) s.insert(0, "+");
print_showpos(s, v, f) == IF f.showpos /\ v.sgn >= 0 THEN <<"+">> \o s ELSE s
\* if (len < width) { left / internal && s[0] == '-' / otherwise }
print_pad(s, f, width, fill) ==
    IF Len(s) >= width THEN s
    ELSE IF f.adjust = "left" THEN s \o Rep(fill, width - Len(s))
    ELSE IF f.adjust = "internal" /\ s[1] = "-"
    THEN Insert(s, 1, Rep(fill, width - Len(s)))
    ELSE Rep(fill, width - Len(s)) \o s
\* os << s: the stream pads a string shorter than its width
stream_insert(s, f, width, fill) ==
    IF Len(s) >= width THEN s
    ELSE IF f.adjust = "left" THEN s \o Rep(fill, width - Len(s))
    ELSE Rep(fill, width - Len(s)) \o s
\* void print_mpf(std::ostream &os, const mpf_t op);   os.width(0);
print_mpf(v, f, width, prec, fill, body) ==
    [text |-> stream_insert(
                  print_pad(print_showpos(
                                print_str(v, f, width, prec, fill, body), v, f),
                            f, width, fill),
                  f, width, fill),
     width |-> 0]

\* the flags of a stream
Flags ==
    [adjust : {"left", "right", "internal"}, showpos : BOOLEAN,
     showbase : BOOLEAN, showpoint : BOOLEAN,
     notation : {"default", "fixed", "scientific"},
     base : {"dec", "hex", "oct"}]
\* the values printed: zero, and the digit strings 1 and 15 with the point
\* at -1 .. MaxPoint, of either sign
PrintValues ==
    {[sgn |-> 0, D |-> <<>>, exp |-> 0]}
    \cup [sgn : {-1, 1}, D : {<<"1">>, <<"1", "5">>}, exp : (-1)..MaxPoint]
\* the digits gmp_asprintf writes
EngineBodies == {<<"1">>, <<"1", ".", "5">>}

(***************************************************************************)
(* The program: static initialisation, then any sequence of operations     *)
(***************************************************************************)
(***************************************************************************)
(* Buffers. An mpf_t is a handle; mpf_init and its variants allocate a     *)
(* limb buffer and point the handle at it, mpf_clear releases the buffer   *)
(* the handle points to. The frame m holds the buffers, the handles and    *)
(* the record of a release of a buffer that was not live.                  *)
(***************************************************************************)
Bufs == 1..MaxBuf
NoBuf == 0
\* the mpf_t of the named objects and of a local or temporary object
Handles == Objs \cup {"result"}
FreeCell == [live |-> FALSE, val |-> Unconstructed]
Mem == [heap |-> heap, ptr |-> ptr, double_free |-> double_free]
FreeBufs(m) == {b \in Bufs : ~m.heap[b].live}
\* the allocator hands out a buffer that is not live
NewBuf(m) == CHOOSE b \in FreeBufs(m) : \A c \in FreeBufs(m) : b <= c
\* the number the handle h holds
value(m, h) == m.heap[m.ptr[h]].val
\* an object is in scope when its handle points somewhere
InScope(m, h) == m.ptr[h] # NoBuf

\* mpf_init, mpf_init2, mpf_init_set, mpf_init_set_d, ... on the handle h:
\* a new buffer holding v; what h pointed to before is not looked at
mpf_init_buf(m, h, v) ==
    LET b == NewBuf(m)
    IN  [m EXCEPT !.heap[b] = [live |-> TRUE, val |-> v], !.ptr[h] = b]
\* mpf_clear on the handle h
mpf_clear(m, h) ==
    IF m.ptr[h] # NoBuf /\ m.heap[m.ptr[h]].live
    THEN [m EXCEPT !.heap[m.ptr[h]] = FreeCell]
    ELSE [m EXCEPT !.double_free = TRUE]
\* mpf_swap exchanges the two mpf_t structs, buffer pointers included
mpf_swap(m, a, b) == [m EXCEPT !.ptr[a] = m.ptr[b], !.ptr[b] = m.ptr[a]]
\* an engine routine writes its result v through the handle h
mpf_store(m, h, v) == [m EXCEPT !.heap[m.ptr[h]].val = v]

\* mpf_class() { mpf_init(value); }
ctor_default(m, h, d) == mpf_init_buf(m, h, mpf_class_default(d))
\* mpf_class(const mpf_class &op)
ctor_copy(m, h, op, d) == mpf_init_buf(m, h, mpf_class_copy(value(m, op), d))
\* mpf_class(double op, mp_bitcnt_t prec)
ctor_prim_prec(m, h, prec) == mpf_init_buf(m, h, mpf_class_prim_prec(prec))
\* mpf_class(mpf_class &&op) { mpf_init(value); mpf_swap(value, op.value); }
ctor_move(m, h, op, d) == mpf_swap(ctor_default(m, h, d), h, op)
\* ~mpf_class() { mpf_clear(value); }   after it the object is gone
dtor(m, h) == [mpf_clear(m, h) EXCEPT !.ptr[h] = NoBuf]
\* mpf_class(const char *str), mpf_class(const std::string &str):
\* mpf_init_set_str initialises value whether or not it accepts str; when
\* it rejects str the constructor throws, so the object never exists and
\* its destructor never runs
ctor_str(m, h, accepted, d) ==
    IF accepted
    THEN mpf_init_buf(m, h, mpf_class_prim(d))
    ELSE [mpf_init_buf(m, h, mpf_class_default(d)) EXCEPT !.ptr[h] = NoBuf]
\* mpf_class &operator=(const mpf_class &op): if (this != &op) { ... }
assign_copy(m, self, op, d) ==
    IF self = op THEN m
    ELSE IF header = "gmpxx_mkII" /\ noprecchange
         THEN mpf_store(m, self, copy_assign(value(m, self), value(m, op), d))
         ELSE mpf_init_buf(m, self,
                           copy_assign(value(m, self), value(m, op), d))
\* mpf_class &operator=(mpf_class &&op): if (this != &op) { ... }
assign_move(m, self, op, d) ==
    IF self = op THEN m
    ELSE IF header = "part_001" /\ ~noprecchange
         THEN mpf_init_buf(m, self,
                           move_assign(value(m, self), value(m, op), d))
         ELSE mpf_swap(m, self, op)
\* operator+, -, *, / (mpf_class, mpf_class): mpf_class result; in standard
\* mode mpf_init2(result.value, prec); the engine routine; return result,
\* which is constructed in the caller's temporary
binary_buf(m, opr, op1, op2, d) ==
    IF noprecchange
    THEN mpf_store(ctor_default(m, "result", d), "result",
                   binary(opr, value(m, op1), value(m, op2), d))
    ELSE mpf_init_buf(ctor_default(m, "result", d), "result",
                      binary(opr, value(m, op1), value(m, op2), d))
\* operator/=(mpf_class &lhs, const mpf_class &rhs)
compound_buf(m, opr, lhs, rhs) ==
    mpf_store(m, lhs, compound_assign(opr, value(m, lhs), value(m, rhs)))
\* mpf_class &operator++(): mpf_add_ui(value, value, 1)
increment(m, self) ==
    mpf_store(m, self, mpf_arith(value(m, self), value(m, self),
                                 mpf_set_prim(value(m, self))))
\* void set_prec(mp_bitcnt_t prec): the engine resizes the buffer in place
set_prec(m, self, prec) == mpf_store(m, self, mpf_set_prec(value(m, self), prec))
\* operator==(op1, op2) { return mpf_cmp(op1.value, op2.value) == 0; } for
\* an op1 that was set from op2: equal unless the number was rounded again
operator_eq(op1, op2) == op1.acc = op2.acc
\* mpf_class &operator=(double d): mpf_set_d(value, d)
assign_double(m, self) == mpf_store(m, self, assign_prim(value(m, self)))
\* void swap(mpf_class &op)
swap(m, self, op) == mpf_swap(m, self, op)

\* mpf_class(const char *str, mp_bitcnt_t prec, int base): mpf_init2, then
\* mpf_set_str; throws when the engine rejects str
ctor_str_prec(m, h, prec, accepted) ==
    IF accepted
    THEN mpf_init_buf(m, h, mpf_class_prim_prec(prec))
    ELSE [mpf_init_buf(m, h, mpf_init2(prec)) EXCEPT !.ptr[h] = NoBuf]
\* mpf_set_str(value, str, base) on an existing object: the number is
\* replaced when the engine accepts str
set_str(m, self, accepted) ==
    IF accepted THEN mpf_store(m, self, assign_prim(value(m, self))) ELSE m
\* what the caller observes of a parse: the engine's status 0 / -1 turned
\* into an exception, a returned status or the stream's failbit
mpf_set_str_status(accepted) == IF accepted THEN 0 ELSE 0 - 1
ctor_str_signal(accepted) ==
    IF mpf_set_str_status(accepted) # 0 THEN "throw" ELSE "none"
assign_str_signal(accepted) ==
    IF mpf_set_str_status(accepted) # 0 THEN "throw" ELSE "none"
set_str_signal(accepted) ==
    IF mpf_set_str_status(accepted) # 0 THEN "status" ELSE "none"
\* an operator>> that leaves the stream state alone
extract_signal_silent(accepted) == "none"
extract_signal(accepted) ==
    IF mpf_set_str_status(accepted) # 0 THEN "failbit" ELSE "none"

Other(o) == IF o = "x" THEN "y" ELSE "x"
Op(name, arg) == [op |-> name, arg |-> arg]

\* pi_cached is defined before global_mpf_class_initializer, so it is
\* constructed under the engine's initial default; the initializer then
\* sets the default to 512 bits
Init ==
    /\ header \in Headers
    /\ noprecchange \in BOOLEAN
    /\ default_prec = mpf_set_default_prec(InitializerPrec)
    /\ obj = [o \in Objs |-> mpf_class_default(mpf_set_default_prec(InitializerPrec))]
    /\ ret = Unconstructed
    /\ pi_cached = mpf_class_default(EngineInitialPrec)
    /\ pi_calculated = FALSE
    /\ calculated_pi_precision = 0
    /\ log2_cached = Unconstructed
    /\ log2_calculated = FALSE
    /\ calculated_log2_precision = 0
    /\ aborted = FALSE
    /\ last = Op("init", "")
    /\ calls = <<NoCall, NoCall>>
    /\ heap = [b \in Bufs |->
                 IF b <= 2
                 THEN [live |-> TRUE,
                       val |-> mpf_class_default(mpf_set_default_prec(InitializerPrec))]
                 ELSE FreeCell]
    /\ ptr = [h \in Handles |-> IF h = "x" THEN 1 ELSE IF h = "y" THEN 2 ELSE NoBuf]
    /\ double_free = FALSE
    /\ signal = "none"
    /\ num = Idle
    /\ os = [text |-> <<>>, width |-> 0]

config == <<header, noprecchange>>

\* a statement that touches the named objects only
ObjStep(o, v, name, arg) ==
    /\ ~aborted
    /\ obj' = [obj EXCEPT ![o] = v]
    /\ ret' = Unconstructed
    /\ last' = Op(name, arg)
    /\ UNCHANGED <<config, default_prec, cacheVars, aborted, calls, memVars>>

\* an expression whose value is inspected and then destroyed
ExprStep(v, name, arg) ==
    /\ ~aborted
    /\ ret' = v
    /\ last' = Op(name, arg)
    /\ UNCHANGED <<config, default_prec, obj, cacheVars, aborted, calls, memVars>>

\* a call that may touch the process-wide state
EnvStep(r, name, arg) ==
    /\ ~aborted
    /\ ret' = r.val
    /\ default_prec' = r.env.d
    /\ pi_cached' = r.env.pi_cached
    /\ pi_calculated' = r.env.pi_calculated
    /\ calculated_pi_precision' = r.env.calculated_pi_precision
    /\ log2_cached' = r.env.log2_cached
    /\ log2_calculated' = r.env.log2_calculated
    /\ calculated_log2_precision' = r.env.calculated_log2_precision
    /\ aborted' = r.env.aborted
    /\ calls' = r.env.calls
    /\ last' = Op(name, arg)
    /\ UNCHANGED <<config, obj, memVars>>

\* gmpxx_defaults::set_default_prec(q) / mpf_set_default_prec(q)
SetDefaultPrec ==
    \E q \in Requests :
        /\ ~aborted
        /\ default_prec' = mpf_set_default_prec(q)
        /\ ret' = Unconstructed
        /\ last' = Op("set_default_prec", "")
        /\ UNCHANGED <<config, obj, cacheVars, aborted, calls, memVars>>

\* mpf_class o;
Declare ==
    \E o \in Objs : ObjStep(o, mpf_class_default(default_prec), "ctor_default", o)
\* mpf_class o(1.5);   mpf_class o("1.5");
DeclarePrim ==
    \E o \in Objs : ObjStep(o, mpf_class_prim(default_prec), "ctor_prim", o)
\* mpf_class o(3.0, p);
DeclarePrimPrec ==
    \E o \in Objs, p \in ObjRequests :
        ObjStep(o, mpf_class_prim_prec(p), "ctor_prim_prec", "")
\* mpf_class o(other);
DeclareCopy ==
    \E o \in Objs :
        ObjStep(o, mpf_class_copy(obj[Other(o)], default_prec), "ctor_copy", "")
\* mpf_class o(other, p);
DeclareCopyPrec ==
    \E o \in Objs, p \in ObjRequests :
        ObjStep(o, mpf_class_copy_prec(obj[Other(o)], p), "ctor_copy_prec", "")
\* o = other;
CopyAssign ==
    \E o \in Objs :
        ObjStep(o, copy_assign(obj[o], obj[Other(o)], default_prec),
                "assign_copy", "")
\* o = x (op) y;   the right-hand side is a temporary
MoveAssign ==
    \E o \in Objs, opr \in BinOps :
        ObjStep(o, move_assign(obj[o],
                       binary(opr, obj["x"], obj["y"], default_prec),
                       default_prec),
                "assign_move", "")
\* o = 1.5;   o = "1.5";
AssignPrim ==
    \E o \in Objs : ObjStep(o, assign_prim(obj[o]), "assign_prim", "")
\* o += other;  o -= other;  o *= other;  o /= other;
Compound ==
    \E o \in Objs, opr \in BinOps :
        ObjStep(o, compound_assign(opr, obj[o], obj[Other(o)]), "compound", "")
\* o += n;  o -= n;  o *= n;  o /= n;
CompoundPrim ==
    \E o \in Objs, opr \in BinOps :
        ObjStep(o, compound_assign_prim(opr, obj[o], default_prec),
                "compound_prim", "")
\* o.set_prec(p);
SetPrec ==
    \E o \in Objs, p \in ObjRequests :
        ObjStep(o, mpf_set_prec(obj[o], p), "set_prec", "")
\* o.set_prec_raw(p);
SetPrecRaw ==
    \E o \in Objs, p \in ObjRequests :
        ObjStep(o, mpf_set_prec_raw(obj[o], p), "set_prec_raw", "")
\* x.swap(y);   swap(x, y);
Swap ==
    /\ ~aborted
    /\ obj' = [obj EXCEPT !["x"] = obj["y"], !["y"] = obj["x"]]
    /\ ret' = Unconstructed
    /\ last' = Op("swap", "")
    /\ UNCHANGED <<config, default_prec, cacheVars, aborted, calls, memVars>>
\* x + y,  x - y,  x * y,  x / y
Binary ==
    \E opr \in BinOps :
        ExprStep(binary(opr, obj["x"], obj["y"], default_prec), "binary", "")
\* x + n, x - n, x * n, x / n, n + x, n - x, n * x, n / x
Mixed ==
    \E m \in MixedOps :
        ExprStep(mixed(m, obj["x"], default_prec), "mixed", m)

\* const_pi();
ConstPi ==
    \E n \in 1..MaxIter :
        LET r == const_pi(Env, n)
        IN  EnvStep(r, "const_pi",
                    IF r.env.calls[2].recomputed THEN "miss" ELSE "hit")
\* const_log2();
ConstLog2 ==
    \E n \in 1..MaxIter :
        LET r == const_log2(Env, n)
        IN  EnvStep(r, "const_log2",
                    IF log2_cache_miss(log2_calculated, calculated_log2_precision,
                                       mpf_get_default_prec(default_prec))
                    THEN "miss" ELSE "hit")
\* const_pi(p);   the function exists in src/gmpxx_mkII.h in standard mode only
ConstPiPrec ==
    \E p \in ObjRequests, n \in 1..MaxIter :
        /\ header = "part_001" \/ ~noprecchange
        /\ EnvStep(const_pi_prec(p, Env, n), "const_pi_prec", "")
\* const_log2(p);
ConstLog2Prec ==
    \E p \in ObjRequests, n \in 1..MaxIter :
        /\ header = "part_001" \/ ~noprecchange
        /\ EnvStep(const_log2_prec(p, Env, n), "const_log2_prec", "")
\* a call that may touch the process-wide state and write to std::cout
EnvStepOut(r, name, arg, out) ==
    /\ ~aborted
    /\ ret' = r.val
    /\ default_prec' = r.env.d
    /\ pi_cached' = r.env.pi_cached
    /\ pi_calculated' = r.env.pi_calculated
    /\ calculated_pi_precision' = r.env.calculated_pi_precision
    /\ log2_cached' = r.env.log2_cached
    /\ log2_calculated' = r.env.log2_calculated
    /\ calculated_log2_precision' = r.env.calculated_log2_precision
    /\ aborted' = r.env.aborted
    /\ calls' = r.env.calls
    /\ last' = Op(name, arg)
    /\ os' = out
    /\ UNCHANGED <<config, obj, heap, ptr, double_free, signal, num>>
\* the lines a text holds
Lines(s) == Cardinality({i \in 1..Len(s) : s[i] = "\n"})
\* std::cout << std::setprecision(100) << _log << std::endl;   the last
\* statement of log() in src/gmpxx_mkII.h; src/unnamed/part_001 has none
log_cout(out, body) ==
    IF header = "part_001" THEN out
    ELSE [out EXCEPT !.text = @ \o body \o <<"\n">>]
\* log(x);
Log ==
    /\ header = "part_001" \/ Lines(os.text) < MaxLines
    /\ \E n \in 1..MaxIter, body \in EngineBodies :
        EnvStepOut(log(obj["x"], Env, n), "log", "", log_cout(os, body))
\* exp(x);   src/unnamed/part_001 only
Exp ==
    \E n \in 1..MaxIter, negative \in BOOLEAN, reduced \in BOOLEAN :
        /\ header = "part_001"
        /\ EnvStep(exp(obj["x"], negative, reduced, Env, n), "exp", "")

NextArith ==
    \/ SetDefaultPrec
    \/ Declare
    \/ DeclarePrim
    \/ DeclarePrimPrec
    \/ DeclareCopy
    \/ DeclareCopyPrec
    \/ CopyAssign
    \/ MoveAssign
    \/ AssignPrim
    \/ Compound
    \/ CompoundPrim
    \/ SetPrec
    \/ SetPrecRaw
    \/ Swap
    \/ Binary
    \/ Mixed

SpecArith == Init /\ [][NextArith]_vars

\* mpf_class::reset_pi_cache(): declared in the class, defined nowhere. The
\* flags const_pi() consults are statics local to const_pi(), which no other
\* function can name, so no definition of it can change them.
ResetPiCache ==
    /\ ~aborted
    /\ ret' = Unconstructed
    /\ last' = Op("reset_pi_cache", "")
    /\ UNCHANGED <<config, default_prec, obj, cacheVars, aborted, calls, memVars>>
\* mpf_class::reset_log2_cache(): declared in the class, defined nowhere. The
\* value and the flags const_log2() consults are all statics local to it.
ResetLog2Cache ==
    /\ ~aborted
    /\ ret' = Unconstructed
    /\ last' = Op("reset_log2_cache", "")
    /\ UNCHANGED <<config, default_prec, obj, cacheVars, aborted, calls, memVars>>

NextConst ==
    \/ SetDefaultPrec
    \/ ConstPi
    \/ ConstLog2
    \/ ResetPiCache
    \/ ResetLog2Cache

SpecConst == Init /\ [][NextConst]_vars

\* the precisions asked of const_log2(p): the smallest ones and one limb
SmallRequests == (0..MaxRequest) \cup {GMP_NUMB_BITS}
\* const_log2(p);   with the count b is scaled by
ConstLog2PrecSmall ==
    \E p \in SmallRequests, n \in 1..MaxIter :
        /\ header = "part_001"
        /\ EnvStep(const_log2_prec(p, Env, n), "const_log2_prec",
                   [p |-> p, count |-> log2_shift_count(p)])

NextShift ==
    \/ SetDefaultPrec
    \/ ConstLog2
    \/ ConstLog2PrecSmall

SpecShift == Init /\ [][NextShift]_vars

NextPrec ==
    \/ SetDefaultPrec
    \/ ConstPi
    \/ ConstLog2
    \/ ConstPiPrec
    \/ ConstLog2Prec

SpecPrec == Init /\ [][NextPrec]_vars

NextLog ==
    \/ SetDefaultPrec
    \/ DeclarePrimPrec
    \/ ConstPi
    \/ Log
    \/ Exp

SpecLog == Init /\ [][NextLog]_vars

(***************************************************************************)
(* Object lifetimes: statements that construct, assign, mutate and destroy *)
(* the named objects x and y                                                *)
(***************************************************************************)
Room(m, n) == Cardinality(FreeBufs(m)) >= n
\* what the program sees of the named objects x and y
View(m) ==
    [o \in Objs |-> IF InScope(m, o) THEN value(m, o) ELSE Unconstructed]

\* buffers that are live and that no handle points to: nothing can read or
\* release them any more
Lost(h, p) == {b \in Bufs : h[b].live /\ \A o \in Handles : p[o] # b}
\* the content of a lost buffer is dropped from the state
Scrub(m) ==
    [b \in Bufs |-> IF b \in Lost(m.heap, m.ptr)
                    THEN [live |-> TRUE, val |-> Unconstructed]
                    ELSE m.heap[b]]

\* a statement that ran to its end (or to its throw) on the frame m
MemStep(m, name, arg, sig) ==
    /\ ~aborted
    /\ heap' = Scrub(m)
    /\ ptr' = m.ptr
    /\ double_free' = m.double_free
    /\ signal' = sig
    /\ obj' = View(m)
    /\ ret' = Unconstructed
    /\ last' = Op(name, arg)
    /\ UNCHANGED <<config, default_prec, cacheVars, aborted, calls, num, os>>

\* { mpf_class o; ...
NewDefault ==
    \E o \in Objs :
        /\ ~InScope(Mem, o) /\ Room(Mem, 1)
        /\ MemStep(ctor_default(Mem, o, default_prec), "new_default", <<o>>, "none")
\* { mpf_class o(a); ...
NewCopy ==
    \E o \in Objs, a \in Objs :
        /\ ~InScope(Mem, o) /\ InScope(Mem, a) /\ Room(Mem, 1)
        /\ MemStep(ctor_copy(Mem, o, a, default_prec), "new_copy", <<o, a>>, "none")
\* { mpf_class o(std::move(a)); ...
NewMove ==
    \E o \in Objs, a \in Objs :
        /\ ~InScope(Mem, o) /\ InScope(Mem, a) /\ Room(Mem, 1)
        /\ MemStep(ctor_move(Mem, o, a, default_prec), "new_move", <<o, a>>, "none")
\* { mpf_class o("1.5"); ...   { mpf_class o("1.5", p); ...
NewStr ==
    \E o \in Objs, accepted \in BOOLEAN, p \in ObjRequests \cup {0} :
        /\ ~InScope(Mem, o) /\ Room(Mem, 1)
        /\ MemStep(IF p = 0 THEN ctor_str(Mem, o, accepted, default_prec)
                            ELSE ctor_str_prec(Mem, o, p, accepted),
                   "new_str", <<o, accepted>>, ctor_str_signal(accepted))
\* ... }   o leaves its scope
Destroy ==
    \E o \in Objs :
        /\ InScope(Mem, o)
        /\ MemStep(dtor(Mem, o), "destroy", <<o>>, "none")
\* o = a;   o = o;
AssignCopy ==
    \E o \in Objs, a \in Objs :
        /\ InScope(Mem, o) /\ InScope(Mem, a) /\ Room(Mem, 1)
        /\ MemStep(assign_copy(Mem, o, a, default_prec), "assign_copy", <<o, a>>, "none")
\* o = std::move(a);
AssignMove ==
    \E o \in Objs, a \in Objs :
        /\ InScope(Mem, o) /\ InScope(Mem, a) /\ Room(Mem, 1)
        /\ MemStep(assign_move(Mem, o, a, default_prec), "assign_move", <<o, a>>, "none")
\* a (op) b;   the temporary is destroyed at the end of the statement
BinaryStmt ==
    \E a \in Objs, b \in Objs, opr \in BinOps :
        /\ InScope(Mem, a) /\ InScope(Mem, b) /\ Room(Mem, 2)
        /\ MemStep(dtor(binary_buf(Mem, opr, a, b, default_prec), "result"),
                   "binary", <<a, b>>, "none")
\* o = a (op) b;
AssignBinary ==
    \E o \in Objs, a \in Objs, b \in Objs, opr \in BinOps :
        /\ InScope(Mem, o) /\ InScope(Mem, a) /\ InScope(Mem, b) /\ Room(Mem, 3)
        /\ MemStep(dtor(assign_move(binary_buf(Mem, opr, a, b, default_prec),
                                    o, "result", default_prec), "result"),
                   "assign_binary", <<o, a, b>>, "none")
\* o /= a;   ++o;   o.set_prec(p);   o = 1.5;   { mpf_class t(3.0, p); o.swap(t); }
Mutate ==
    \E o \in Objs, a \in Objs, p \in ObjRequests,
       how \in {"compound", "increment", "set_prec", "assign", "swap_third"} :
        /\ InScope(Mem, o) /\ InScope(Mem, a) /\ Room(Mem, 1)
        /\ MemStep(CASE how = "compound" -> compound_buf(Mem, "/", o, a)
                     [] how = "increment" -> increment(Mem, o)
                     [] how = "set_prec" -> set_prec(Mem, o, p)
                     [] how = "assign" -> assign_double(Mem, o)
                     [] how = "swap_third" ->
                            dtor(swap(ctor_prim_prec(Mem, "result", p),
                                      o, "result"), "result"),
                   "mutate", <<o>>, "none")
\* o.swap(a);
SwapObjects ==
    \E o \in Objs, a \in Objs :
        /\ InScope(Mem, o) /\ InScope(Mem, a)
        /\ MemStep(swap(Mem, o, a), "swap", <<o, a>>, "none")
\* o = "1.5";
AssignStr ==
    \E o \in Objs, accepted \in BOOLEAN :
        /\ InScope(Mem, o)
        /\ MemStep(set_str(Mem, o, accepted), "assign_str", <<o, accepted>>,
                   assign_str_signal(accepted))
\* status = o.set_str("1.5", 10);
SetStr ==
    \E o \in Objs, accepted \in BOOLEAN :
        /\ InScope(Mem, o)
        /\ MemStep(set_str(Mem, o, accepted), "set_str", <<o, accepted>>,
                   set_str_signal(accepted))
\* stream >> o;   src/unnamed/part_001 only
Extract ==
    \E o \in Objs, accepted \in BOOLEAN :
        /\ header = "part_001"
        /\ InScope(Mem, o)
        /\ MemStep(set_str(Mem, o, accepted), "extract", <<o, accepted>>,
                   extract_signal(accepted))

NextMem ==
    \/ NewDefault
    \/ NewCopy
    \/ NewMove
    \/ NewStr
    \/ Destroy
    \/ AssignCopy
    \/ AssignMove
    \/ BinaryStmt
    \/ AssignBinary

SpecMem == Init /\ [][NextMem]_vars

NextParse ==
    \/ NewDefault
    \/ NewStr
    \/ Destroy
    \/ AssignStr
    \/ SetStr
    \/ Extract

SpecParse == Init /\ [][NextParse]_vars

NextCopy ==
    \/ SetDefaultPrec
    \/ NewCopy
    \/ Destroy
    \/ Mutate
    \/ SwapObjects

SpecCopy == Init /\ [][NextCopy]_vars

\* sqrt(x), abs(x), ceil(x), floor(x), trunc(x), neg(x), hypot(x, y)
Elementary ==
    \E fn \in ElementaryFns :
        ExprStep(elementary(fn, obj["x"], obj["y"], default_prec),
                 "elementary", fn)

NextElem ==
    \/ SetDefaultPrec
    \/ DeclarePrimPrec
    \/ Compound
    \/ Elementary

SpecElem == Init /\ [][NextElem]_vars

(***************************************************************************)
(* mpz_class::factorial / primorial and the free functions. An argument n  *)
(* is given by its sign and by mpz_sizeinbase(n, 2).                       *)
(***************************************************************************)
\* the bit at or above the range of unsigned long an argument may have set:
\* none (0), the lowest one, and the two around the size limit
TopBits == {0, GMP_NUMB_BITS, FactorialMaxBits - 1, FactorialMaxBits}
\* mpz_sizeinbase(n, 2) of |n| = 2^high + low (high # 0) or low (high = 0)
RECURSIVE BitLen(_)
BitLen(k) == IF k < 2 THEN 1 ELSE 1 + BitLen(k \div 2)
mpz_sizeinbase(high, low) == IF high # 0 THEN high + 1 ELSE BitLen(low)
MpzInputs ==
    {[neg |-> s, bits |-> mpz_sizeinbase(h, l), high |-> h, low |-> l] :
        s \in BOOLEAN, h \in TopBits, l \in 0..MaxArg}
\* n.get_ui(): the least significant limb of |n|
get_ui(n) == n.low
\* mpz_fac_ui, mpz_primorial_ui, mpz_fib_ui
RECURSIVE mpz_fac_ui(_)
mpz_fac_ui(k) == IF k = 0 THEN 1 ELSE k * mpz_fac_ui(k - 1)
IsPrime(k) == k > 1 /\ \A d \in 2..(k - 1) : k % d # 0
RECURSIVE mpz_primorial_ui(_)
mpz_primorial_ui(k) ==
    IF k = 0 THEN 1
    ELSE (IF IsPrime(k) THEN k ELSE 1) * mpz_primorial_ui(k - 1)
RECURSIVE mpz_fib_ui(_)
mpz_fib_ui(k) == IF k < 2 THEN k ELSE mpz_fib_ui(k - 1) + mpz_fib_ui(k - 2)
\* the outcome of a call: the exception thrown, if any, and whether
\* mpz_fac_ui / mpz_primorial_ui ran on n.get_ui()
Outcome(error, engine) == [error |-> error, engine |-> engine]
\* src/unnamed/part_001: if (n < 0) throw std::domain_error; if
\* (mpz_sizeinbase(n, 2) > 300) throw std::bad_alloc; mpz_fac_ui(result, n.get_ui()).
\* src/gmpxx_mkII.h: mpz_fac_ui(result.value, op.get_ui()) with no test; the
\* member form takes an unsigned long int
factorial(n) ==
    IF header = "part_001"
    THEN IF n.neg THEN Outcome("domain_error", FALSE)
         ELSE IF n.bits > FactorialMaxBits THEN Outcome("bad_alloc", FALSE)
         ELSE Outcome("none", TRUE)
    ELSE Outcome("none", TRUE)
\* the same for mpz_primorial_ui
primorial(n) ==
    IF header = "part_001"
    THEN IF n.neg THEN Outcome("domain_error", FALSE)
         ELSE IF n.bits > FactorialMaxBits THEN Outcome("bad_alloc", FALSE)
         ELSE Outcome("none", TRUE)
    ELSE Outcome("none", TRUE)
\* fibonacci: if (log2_op > 300) throw std::bad_alloc(); no test of the sign
fibonacci(n) ==
    IF header = "part_001" /\ n.bits > FactorialMaxBits
    THEN Outcome("bad_alloc", FALSE)
    ELSE Outcome("none", TRUE)
\* if (isNegative) { if ((op + 1) % 2 != 0) result = -result; }
fibonacci_sign(n) ==
    IF header = "part_001" /\ n.neg /\ (n.low + 1) % 2 # 0 THEN -1 ELSE 1
mpz_call(fn, n) ==
    IF fn = "factorial" THEN factorial(n)
    ELSE IF fn = "primorial" THEN primorial(n) ELSE fibonacci(n)
\* mpz_class result; mpz_..._ui(result.get_mpz_t(), n.get_ui()); return result;
mpz_result(fn, n) ==
    IF ~mpz_call(fn, n).engine THEN 0
    ELSE IF fn = "factorial" THEN mpz_fac_ui(get_ui(n))
    ELSE IF fn = "primorial" THEN mpz_primorial_ui(get_ui(n))
    ELSE fibonacci_sign(n) * mpz_fib_ui(get_ui(n))

\* mpz_class::factorial(n);  factorial(n);  mpz_class::primorial(n);
\* primorial(n);  mpz_class::fibonacci(n);  fibonacci(n);
Factorial ==
    \E fn \in {"factorial", "primorial", "fibonacci"},
       form \in {"member", "free"}, n \in MpzInputs :
        /\ ~aborted
        /\ signal' = mpz_call(fn, n).error
        /\ last' = Op(fn, [form |-> form, n |-> n,
                           engine |-> mpz_call(fn, n).engine,
                           result |-> mpz_result(fn, n)])
        /\ ret' = Unconstructed
        /\ UNCHANGED <<config, default_prec, obj, cacheVars, aborted, calls,
                       heap, ptr, double_free, num, os>>

\* mpz_class original = *this; ++(*this); return original;   (and --)
mpz_postfix(v, step) == [x |-> v + step, returned |-> v]
\* mpf_add_ui(value, value, 1); return *this;   (and mpf_sub_ui)
mpf_postfix(v, step) == [x |-> v + step, returned |-> v + step]
\* y = x++;   y = x--;   for x an mpz_class or an mpf_class of value v
Postfix ==
    \E class \in {"mpz_class", "mpf_class"}, step \in {-1, 1},
       v \in (-MaxInt)..MaxInt :
        /\ header = "part_001" /\ ~aborted
        /\ last' = Op("postfix",
                      [class |-> class, step |-> step, v |-> v,
                       out |-> IF class = "mpz_class"
                               THEN mpz_postfix(v, step)
                               ELSE mpf_postfix(v, step)])
        /\ ret' = Unconstructed
        /\ UNCHANGED <<config, default_prec, obj, cacheVars, aborted, calls,
                       memVars>>

\* mpz_tdiv_q_2exp: the quotient rounded towards zero
mpz_tdiv_q_2exp(a, n) ==
    IF a < 0 THEN -((-a) \div (2 ^ n)) ELSE a \div (2 ^ n)
\* mpz_fdiv_q_2exp: the quotient rounded towards minus infinity
mpz_fdiv_q_2exp(a, n) == a \div (2 ^ n)
\* mpz_class &operator>>=(T n)
operator_shr_assign(a, n) == mpz_tdiv_q_2exp(a, n)
\* mpz_class operator>>(const mpz_class &op1, T op2)
operator_shr(a, n) == mpz_fdiv_q_2exp(a, n)
\* b = a >> n;   a >>= n;
ShiftRight ==
    \E a \in (-MaxInt)..MaxInt, n \in 0..MaxShiftCount :
        /\ header = "part_001" /\ ~aborted
        /\ last' = Op("shift_right",
                      [a |-> a, n |-> n, value |-> operator_shr(a, n),
                       assigned |-> operator_shr_assign(a, n)])
        /\ ret' = Unconstructed
        /\ UNCHANGED <<config, default_prec, obj, cacheVars, aborted, calls,
                       memVars>>

NextMpz ==
    \/ Factorial
    \/ Postfix
    \/ ShiftRight
    \/ SetDefaultPrec

SpecMpz == Init /\ [][NextMpz]_vars

\* a program that never calls a default-precision setter
NextStart ==
    \/ Declare
    \/ DeclarePrim
    \/ Compound
    \/ Binary
    \/ ConstPi
    \/ ConstLog2

SpecStart == Init /\ [][NextStart]_vars

(***************************************************************************)
(* The convergence loops, one pass at a time                               *)
(***************************************************************************)
\* a call of fn runs up to the head of its loop
LoopEnter ==
    \E fn \in LoopFns, prec \in LoopPrecs :
        \E x \in (IF fn = "log" THEN LogInputs(prec) ELSE {0}) :
            /\ header = "part_001" /\ ~aborted
            /\ num.pc # "loop"
            /\ num' = loop_init(fn, x, prec)
            /\ last' = Op("loop_enter", fn)
            /\ UNCHANGED <<config, default_prec, obj, ret, cacheVars, aborted,
                           calls, heap, ptr, double_free, signal, os>>
\* while (!converged) { ... }: one pass
LoopPass ==
    /\ num.pc = "loop" /\ ~num.converged
    /\ num' = loop_pass(num)
    /\ last' = Op("loop_pass", num.fn)
    /\ UNCHANGED <<config, default_prec, obj, ret, cacheVars, aborted,
                   calls, heap, ptr, double_free, signal, os>>
\* the loop is left and the function returns
LoopReturn ==
    /\ num.pc = "loop" /\ num.converged
    /\ num' = loop_return(num)
    /\ last' = Op("loop_return", num.fn)
    /\ UNCHANGED <<config, default_prec, obj, ret, cacheVars, aborted,
                   calls, heap, ptr, double_free, signal, os>>

NextLoop ==
    \/ LoopEnter
    \/ LoopPass
    \/ LoopReturn

SpecLoop == Init /\ [][NextLoop]_vars
\* a function that was called keeps running: nothing suspends it
SpecLoopFair == SpecLoop /\ WF_vars(LoopPass) /\ WF_vars(LoopReturn)

(***************************************************************************)
(* exp(x), one pass at a time                                              *)
(***************************************************************************)
ExpStep(f, name) ==
    /\ header = "part_001" /\ ~aborted
    /\ num' = f
    /\ last' = Op(name, "exp")
    /\ UNCHANGED <<config, default_prec, obj, ret, cacheVars, aborted,
                   calls, heap, ptr, double_free, signal, os>>
\* a call of exp(x) runs up to the series
ExpEnter ==
    \E prec \in LoopPrecs :
        \E x \in ExpInputs(prec) :
            /\ num.pc \in {"idle", "done"}
            /\ ExpStep(exp_init(x, prec), "exp_enter")
\* for (int i = l; i > 0; i--) { ... }: one pass
ExpSeries ==
    /\ num.fn = "exp" /\ num.pc = "series" /\ num.i > 0
    /\ ExpStep(exp_pass(num), "exp_series")
\* for (int i = 0; i < k; i++) { ... }: one pass
ExpSquare ==
    /\ num.fn = "exp" /\ num.pc \in {"series", "square"} /\ num.i = 0
    /\ num.squarings < num.k
    /\ ExpStep(exp_squaring(num), "exp_square")
\* the scaling, the reciprocal and the return
ExpReturn ==
    /\ num.fn = "exp" /\ num.pc \in {"series", "square"} /\ num.i = 0
    /\ num.squarings = num.k
    /\ ExpStep(exp_return(num), "exp_return")

NextExp ==
    \/ ExpEnter
    \/ ExpSeries
    \/ ExpSquare
    \/ ExpReturn

SpecExp == Init /\ [][NextExp]_vars

(***************************************************************************)
(* Output                                                                  *)
(***************************************************************************)
\* os << std::setw(width): the width of the next insertion
SetWidth ==
    /\ header = "part_001" /\ ~aborted /\ os.text = <<>>
    /\ \E width \in 0..MaxWidth :
        /\ os' = [os EXCEPT !.width = width]
        /\ last' = Op("setw", width)
        /\ UNCHANGED <<config, default_prec, obj, ret, cacheVars, aborted,
                       calls, heap, ptr, double_free, signal, num>>

\* os << x;   the first insertion into os, with its flags and fill set before
OutputMpf ==
    /\ header = "part_001" /\ ~aborted /\ os.text = <<>>
    /\ \E v \in PrintValues, f \in Flags, body \in EngineBodies :
        /\ os' = print_mpf(v, f, os.width, 0, "*", body)
        /\ last' = Op("print", [v |-> v, f |-> f, width |-> os.width,
                                body |-> body])
        /\ UNCHANGED <<config, default_prec, obj, ret, cacheVars, aborted,
                       calls, heap, ptr, double_free, signal, num>>

NextOut ==
    \/ SetWidth
    \/ OutputMpf

SpecOut == Init /\ [][NextOut]_vars

(***************************************************************************)
(* Properties                                                              *)
(***************************************************************************)
DefaultBits == mpf_get_default_prec(default_prec)
PrecOf(o) == mpf_get_prec(obj[o])

\* C1: in standard mode each of x + y, x - y, x * y, x / y returns a value
\* whose get_prec() is the larger of the operands' precisions, whatever the
\* default precision is, and leaves both operands as they were
C1_BinaryTakesLargerPrec ==
    [][(~noprecchange /\ last'.op = "binary")
        => /\ mpf_get_prec(ret') = Max2(PrecOf("x"), PrecOf("y"))
           /\ obj' = obj]_vars
\* a binary operator has run on operands of different precisions under a
\* default precision that is neither of them
C1_Witness ==
    /\ ~noprecchange
    /\ last.op = "binary"
    /\ PrecOf("x") < PrecOf("y")
    /\ DefaultBits # PrecOf("y")
    /\ DefaultBits # PrecOf("x")
    /\ mpf_get_prec(ret) = PrecOf("y")

\* C2: in standard mode, in both header variants, assignment from an
\* mpf_class (lvalue or temporary), assignment from a primitive, compound
\* assignment and use as an operand leave get_prec() of every existing
\* object as it was
C2_PrecisionFixed ==
    [][(~noprecchange
        /\ last'.op \in {"assign_copy", "assign_move", "assign_prim",
                         "compound", "compound_prim", "binary", "mixed"})
        => \A o \in Objs : mpf_get_prec(obj'[o]) = PrecOf(o)]_vars

\* the condition const_pi() is specified to recompute under
PiStale ==
    ~pi_calculated \/ calculated_pi_precision # DefaultBits
\* C3: every evaluation of const_pi(), called directly or from a recomputing
\* const_log2(), recomputes and overwrites the one slot exactly when nothing
\* has been computed yet or the recorded precision differs from the current
\* default precision, and otherwise serves the stored value untouched; so a
\* call under a default that differs from the previous call's recomputes
C3_RecomputeExactlyWhenStale ==
    [][(last'.op = "const_pi"
        \/ (last'.op = "const_log2" /\ last'.arg = "miss"))
        => /\ calls'[1] = calls[2]
           /\ calls'[2] = [dflt |-> DefaultBits, recomputed |-> PiStale]
           /\ pi_calculated'
           /\ calculated_pi_precision' = DefaultBits
           /\ (calls[2] = NoCall \/ calls[2].dflt # DefaultBits)
                  => calls'[2].recomputed
           /\ ~PiStale => pi_cached' = pi_cached
           /\ (~PiStale /\ last'.op = "const_pi")
                  => ret' = mpf_class_copy(pi_cached, default_prec)]_vars
\* const_pi() has recomputed under 256 bits and then again under 128 bits
C3_Witness ==
    /\ last = Op("const_pi", "miss")
    /\ calls[1] = [dflt |-> 256, recomputed |-> TRUE]
    /\ calls[2] = [dflt |-> 128, recomputed |-> TRUE]
    /\ calculated_pi_precision = 128

\* C4: the value const_pi() or const_log2() returns has get_prec() equal to
\* the default precision in force at the call, the first call included
C4_ConstantAtDefaultPrec ==
    (last.op \in {"const_pi", "const_log2"})
        => mpf_get_prec(ret) = DefaultBits

\* C5: const_pi(p) and const_log2(p) leave the cached values, their
\* recorded precisions, their flags, the default precision and the record
\* of which const_pi() calls recomputed as they were
C5_PrecFormsLeaveCache ==
    [][(last'.op \in {"const_pi_prec", "const_log2_prec"})
        => UNCHANGED <<cacheVars, calls, default_prec>>]_vars
\* a precision-argument call has returned while both caches hold a value
\* recorded under another precision
C5_Witness ==
    /\ last.op \in {"const_pi_prec", "const_log2_prec"}
    /\ ~aborted
    /\ pi_calculated
    /\ log2_calculated
    /\ mpf_get_prec(ret) # calculated_pi_precision
    /\ mpf_get_prec(ret) # calculated_log2_precision

\* C6: in standard mode log(x) of src/unnamed/part_001 returns a value of
\* x's precision that is the value every other default precision yields
C6_LogIndependentOfDefault ==
    [][(header = "part_001" /\ ~noprecchange /\ last'.op = "log" /\ ~aborted')
        => /\ mpf_get_prec(ret') = PrecOf("x")
           /\ \A q \in Requests : \E n \in 1..MaxIter :
                  log(obj["x"], [Env EXCEPT !.d = mpf_set_default_prec(q)], n).val
                      = ret']_vars

\* C7: a change of the default precision leaves every existing object as it
\* was, and an object then built by the default constructor or from a
\* primitive without a precision argument has the new default precision
C7_DefaultAppliesToNewObjectsOnly ==
    [][/\ (last'.op = "set_default_prec") => obj' = obj
       /\ (last'.op \in {"ctor_default", "ctor_prim"})
              => /\ mpf_get_prec(obj'[last'.arg]) = DefaultBits
                 /\ obj'[Other(last'.arg)] = obj[Other(last'.arg)]]_vars
\* an object has been built from a primitive under a default that is not
\* the one of program start, next to an object of another precision
C7_Witness ==
    /\ last.op = "ctor_prim"
    /\ DefaultBits # InitializerPrec
    /\ PrecOf(last.arg) = DefaultBits
    /\ PrecOf(Other(last.arg)) # DefaultBits

\* C8: the const_pi() that follows reset_pi_cache(), and the const_log2()
\* that follows reset_log2_cache(), recomputes
C8_ResetForcesRecompute ==
    [][/\ (last.op = "reset_pi_cache" /\ last'.op = "const_pi")
              => last'.arg = "miss"
       /\ (last.op = "reset_log2_cache" /\ last'.op = "const_log2")
              => last'.arg = "miss"]_vars

\* C9: in standard mode every mixed expression of an mpf_class x and a
\* primitive has x's precision
C9_MixedAtOperandPrec ==
    (~noprecchange /\ last.op = "mixed")
        => mpf_get_prec(ret) = PrecOf("x")

\* C10: in no-precision-change mode each of x + y, x - y, x * y, x / y
\* returns a value whose precision is the current default precision
C10_BinaryAtDefaultPrec ==
    (noprecchange /\ last.op = "binary")
        => mpf_get_prec(ret) = DefaultBits
\* a binary operator has run in no-precision-change mode on operands whose
\* precisions both differ from the default precision
C10_Witness ==
    /\ noprecchange
    /\ last.op = "binary"
    /\ PrecOf("x") # DefaultBits
    /\ PrecOf("y") # DefaultBits
    /\ PrecOf("x") # PrecOf("y")
    /\ mpf_get_prec(ret) = DefaultBits

\* C11: an object c constructed as mpf_class c(a) compares equal to a and
\* has a buffer of its own, a is left as it was, and no later assignment,
\* compound assignment, increment, set_prec or swap with a third value
\* applied to one object changes the value or precision of the other
C11_CopyEqualAndIndependent ==
    [][/\ (last'.op = "new_copy")
          => /\ operator_eq(obj'[last'.arg[1]], obj[last'.arg[2]])
             /\ ptr'[last'.arg[1]] # ptr'[last'.arg[2]]
             /\ obj'[last'.arg[2]] = obj[last'.arg[2]]
       /\ (last'.op = "mutate")
          => obj'[Other(last'.arg[1])] = obj[Other(last'.arg[1])]]_vars

\* C12: after every statement no buffer has been released twice, no buffer
\* is shared by two objects, and every live buffer still belongs to an
\* object whose destructor will release it
C12_EveryBufferReleasedOnce ==
    /\ ~double_free
    /\ \A a \in Handles, b \in Handles :
          (a # b /\ ptr[a] # NoBuf) => ptr[a] # ptr[b]
    /\ Lost(heap, ptr) = {}

\* C13: a string the engine rejects is reported by every parsing entry
\* point: the string constructors throw and leave no object behind,
\* operator=(string) throws, set_str returns a non-zero status and
\* operator>> sets the failbit; an accepted string raises none of these
C13_ParseFailureReported ==
    [][(last'.op \in {"new_str", "assign_str", "set_str", "extract"})
          => /\ last'.arg[2] => signal' = "none"
             /\ (~last'.arg[2] /\ last'.op \in {"new_str", "assign_str"})
                   => signal' = "throw"
             /\ (~last'.arg[2] /\ last'.op = "set_str") => signal' = "status"
             /\ (~last'.arg[2] /\ last'.op = "extract") => signal' = "failbit"
             /\ (last'.op = "new_str")
                   => (ptr'[last'.arg[1]] = NoBuf <=> ~last'.arg[2])]_vars
\* a rejected stream extraction into an object that holds a parsed number
C13_Witness ==
    /\ last.op = "extract"
    /\ ~last.arg[2]
    /\ signal = "failbit"
    /\ ptr[last.arg[1]] # NoBuf

\* C14: in a program that calls no default-precision setter the default
\* precision is 512 bits, and every object constructed without a precision
\* argument has precision 512: the program's own objects and the objects
\* of static storage duration the header defines, pi_cached and log2_cached
C14_ImplicitObjectsAt512 ==
    /\ DefaultBits = InitializerPrec
    /\ \A o \in Objs : PrecOf(o) = InitializerPrec
    /\ mpf_get_prec(pi_cached) = InitializerPrec
    /\ log2_cached # Unconstructed => mpf_get_prec(log2_cached) = InitializerPrec

\* C15: in standard mode sqrt(x), abs(x), ceil(x), floor(x), trunc(x) and
\* neg(x) return a value of x's precision and hypot(x, y) returns a value
\* of the larger of the two precisions, whatever the default precision is
C15_ElementaryKeepsPrec ==
    (~noprecchange /\ last.op = "elementary")
        => mpf_get_prec(ret) = IF last.arg = "hypot"
                               THEN Max2(PrecOf("x"), PrecOf("y"))
                               ELSE PrecOf("x")
\* hypot of a narrower and a wider operand under a third default precision
C15_Witness ==
    /\ ~noprecchange
    /\ last = Op("elementary", "hypot")
    /\ PrecOf("x") < PrecOf("y")
    /\ DefaultBits # PrecOf("y")
    /\ mpf_get_prec(ret) = PrecOf("y")

\* C16: for a negative n, factorial(n) and primorial(n), as static member
\* and as free function, throw std::domain_error before mpz_fac_ui or
\* mpz_primorial_ui runs on n, and an oversized non-negative n gets the
\* different error std::bad_alloc
C16_NegativeIsDomainError ==
    (last.op \in {"factorial", "primorial"})
        => /\ last.arg.n.neg => (signal = "domain_error" /\ ~last.arg.engine)
           /\ (~last.arg.n.neg /\ last.arg.n.bits > FactorialMaxBits)
                 => signal = "bad_alloc"

\* the most mantissa bits a number can carry after it was rounded into a
\* destination of v.acc bits: the engine keeps one limb more than the
\* precision asks for, and get_prec() reports one limb less than it keeps
MantissaBits(v) == v.acc + 2 * GMP_NUMB_BITS

\* C17: the value const_pi() returns under default precision p, and the
\* value const_pi(p) returns, lies within 2^(1-p) of pi. The binary
\* expansion of pi has no run of zeros that long, so the returned number
\* must carry at least p mantissa bits: it was never rounded into a
\* destination that keeps fewer
C17_PiWithinBound ==
    (last.op \in {"const_pi", "const_pi_prec"} /\ ~aborted)
        => MantissaBits(ret) >= IF last.op = "const_pi" THEN DefaultBits
                                                       ELSE mpf_get_prec(ret)
\* C18: const_log2() and const_log2(p) run the same AGM: both enter the loop
\* with a = 1, b = 2^-(p/2 - 2) and epsilon = 2^-p (the epsilon of const_pi),
\* every pass tests |a - b| < 2^-p and replaces a, b by (a + b) / 2 and
\* sqrt(a * b), and both return pi / (p * a).
C18_Log2FormsRunSameAGM ==
    [][(num' # num /\ num'.fn \in {"const_log2", "const_log2_prec"})
       => /\ (num.pc # "loop" /\ num'.pc = "loop")
                => /\ num'.a = num_prim(1, num'.prec)
                   /\ num'.b = num_div_2exp(num_prim(1, num'.prec),
                                            (num'.prec \div 2) - 2)
                   /\ num'.epsilon = pi_init("const_pi", num'.prec).epsilon
          /\ (num.pc = "loop" /\ num'.pc = "loop")
                => /\ num'.a = a_next(num) /\ num'.b = b_next(num)
                   /\ num'.converged =
                          (num_abs(num.a - num.b)
                             < num_div_2exp(num_prim(1, num.prec), num.prec))
          /\ (num.pc = "loop" /\ num'.pc = "done")
                => num'.result =
                       num_div(pi_value(num.prec),
                               num_mul(num_prim(num.prec, num.prec), num.a,
                                       num.prec), num.prec)]_vars

RECURSIVE Fact(_)
Fact(n) == IF n = 0 THEN 1 ELSE n * Fact(n - 1)
\* the Taylor polynomial of exp of degree l: the coefficient of r^j is 1 / j!
Taylor(l) == [j \in 1..(l + 1) |-> Fact(j - 1)]
\* 1 + r * E / d for the polynomial E
OnePlusOver(E, d) == <<1>> \o [j \in 1..Len(E) |-> E[j] * d]
\* the binary exponent of |x| and the quotient floor((|x| / 2^k) / (log2 / 2^k))
BinaryExponent(x, prec) == num_get_d_2exp(num_abs(x), Unit(prec))
ReducedQuotient(x, k, prec) ==
    num_div(num_div_2exp(num_abs(x), k),
            num_div_2exp(log2_value(prec), k), prec) \div Unit(prec)

\* C19 (as stated): exp(x) runs E_i = 1 + r * E_(i+1) / (i + 1) for i from l
\* down to 1 with E_(l+1) = 1 and l = p / k, squares k times and scales by
\* 2^n, with k the binary exponent of |x| and
\* n = floor((|x| / 2^k) / (log2 / 2^k)); after the recurrence the
\* accumulator is the Taylor polynomial of degree l.
C19_ExpAsStated ==
    [][(num'.fn = "exp" /\ last'.arg = "exp" /\ num' # num)
       => /\ (last'.op = "exp_enter")
                => /\ num'.poly = <<1>> /\ num'.i = num'.l
                   /\ num'.k = BinaryExponent(num'.x, num'.prec)
                   /\ (num'.k > 0) => num'.l = num'.prec \div num'.k
                   /\ (num'.k > 0)
                         => num'.n = ReducedQuotient(num'.x, num'.k, num'.prec)
          /\ (last'.op = "exp_series")
                => /\ num'.poly = OnePlusOver(num.poly, num.i + 1)
                   /\ num'.i = num.i - 1
                   /\ (num'.i = 0) => num'.poly = Taylor(num.l)
          /\ (last'.op = "exp_return")
                => num'.power = 2 ^ num.k /\ num'.shift = num.n]_vars

\* C19 (amended): exp(x) runs E_i = 1 + r * E_(i+1) / i for i from l down to
\* 1 with E_(l+1) = 1; when the binary exponent of |x| is positive it is k,
\* l = p / k and n = floor((|x| / 2^k) / (log2 / 2^k)), otherwise k = 0,
\* l = p and n = 0; the result of the series is squared k times and scaled
\* by 2^n; after the recurrence the accumulator is the Taylor polynomial of
\* degree l.
C19_ExpRecurrence ==
    [][(num'.fn = "exp" /\ last'.arg = "exp" /\ num' # num)
       => /\ (last'.op = "exp_enter")
                => /\ num'.poly = <<1>> /\ num'.i = num'.l
                   /\ (BinaryExponent(num'.x, num'.prec) > 0)
                         => /\ num'.k = BinaryExponent(num'.x, num'.prec)
                            /\ num'.l = num'.prec \div num'.k
                            /\ num'.n = ReducedQuotient(num'.x, num'.k, num'.prec)
                   /\ (BinaryExponent(num'.x, num'.prec) <= 0)
                         => num'.k = 0 /\ num'.l = num'.prec /\ num'.n = 0
          /\ (last'.op = "exp_series")
                => /\ num'.poly = OnePlusOver(num.poly, num.i)
                   /\ num'.i = num.i - 1
                   /\ (num'.i = 0) => num'.poly = Taylor(num.l)
          /\ (last'.op = "exp_return")
                => num'.power = 2 ^ num.k /\ num'.shift = num.n]_vars
C19_Witness ==
    /\ num.fn = "exp" /\ num.pc = "done" /\ num.k = 3 /\ num.l = 2
    /\ num.poly = Taylor(2) /\ num.power = 8 /\ num.shift > 0 /\ num.inverse
\* C21: in standard mode every assert of const_pi(p), const_log2(p), log(x)
\* and exp(x) holds, for every requested precision and every default
\* precision: no call of one of them ends the program.
C21_AssertsHold ==
    (header = "part_001" /\ ~noprecchange
       /\ last.op \in {"const_pi_prec", "const_log2_prec", "log", "exp"})
        => ~aborted
\* the text print_mpf writes for the same value and flags when the width is 0
Unpadded(a) == print_mpf(a.v, a.f, 0, 0, "*", a.body).text
\* the length of the sign and of the base prefix at the head of a text
SignLen(s) == IF Len(s) >= 1 /\ s[1] \in {"-", "+"} THEN 1 ELSE 0
PrefixLen(s) ==
    SignLen(s)
    + (IF Len(s) >= SignLen(s) + 2
          /\ SubSeq(s, SignLen(s) + 1, SignLen(s) + 2) = <<"0", "x">>
       THEN 2 ELSE 0)
\* a text padded to the width w the way the flags ask for
Padded(s, adjust, w) ==
    IF w <= Len(s) THEN s
    ELSE IF adjust = "left" THEN s \o Rep("*", w - Len(s))
    ELSE IF adjust = "internal"
    THEN Insert(s, PrefixLen(s), Rep("*", w - Len(s)))
    ELSE Rep("*", w - Len(s)) \o s

\* C22: the text operator<< writes has length max(w, n), n the length of
\* the unpadded text; the fill stands after the text for left, between the
\* sign or base prefix and the first digit for internal, before the text
\* otherwise; the width of the stream is 0 afterwards.
C22_PaddedToWidth ==
    (last.op = "print")
        => /\ Len(os.text) = Max2(last.arg.width, Len(Unpadded(last.arg)))
           /\ os.text = Padded(Unpadded(last.arg), last.arg.f.adjust,
                               last.arg.width)
           /\ os.width = 0

\* the positional text of 0.D * base^e for e <= Len(D)
Positional(D, e) ==
    IF e <= 0 THEN <<"0", ".">> \o Rep("0", -e) \o D
    ELSE IF e = Len(D) THEN D
    ELSE SubSeq(D, 1, e) \o <<".">> \o SubSeq(D, e + 1, Len(D))
\* C23: in default notation the text of a non-zero value 0.D * base^e, in
\* base 10 and in base 16, is "0." with -e zeros and then D for e <= 0, and
\* D with the point after its first e digits for 0 < e <= Len(D).
C23_PositionalDenotesValue ==
    (/\ last.op = "print" /\ last.arg.v.sgn # 0
     /\ last.arg.f.notation = "default" /\ last.arg.f.base \in {"dec", "hex"}
     /\ ~last.arg.f.showpos /\ ~last.arg.f.showbase /\ ~last.arg.f.showpoint
     /\ last.arg.width = 0 /\ last.arg.v.exp <= Len(last.arg.v.D))
        => os.text = (IF last.arg.v.sgn < 0 THEN <<"-">> ELSE <<>>)
                     \o Positional(last.arg.v.D, last.arg.v.exp)
\* exp(x) from its call to its return
RECURSIVE exp_loop(_)
exp_loop(f) ==
    IF f.i > 0 THEN exp_loop(exp_pass(f))
    ELSE IF f.squarings < f.k THEN exp_loop(exp_squaring(f))
    ELSE exp_return(f)
exp_of(x, prec) == exp_loop(exp_init(x, prec))
\* C24: for x < 0 exp(x) is one / E, E the value exp returns for |x| at the
\* same precision (same k, n, r, l, same series and squarings); exp(0) is 1.
C24_ExpOfNegative ==
    (num.fn = "exp" /\ num.pc = "done")
        => /\ (num.x < 0)
                => /\ ~exp_of(-num.x, num.prec).inverse
                   /\ num = [exp_of(-num.x, num.prec)
                                EXCEPT !.x = num.x, !.inverse = TRUE]
           /\ (num.x = 0)
                => /\ num.r = 0 /\ num.power = 1 /\ num.shift = 0
                   /\ ~num.inverse
C24_Witness ==
    /\ num.fn = "exp" /\ num.pc = "done" /\ num.x < 0 /\ num.inverse
    /\ num.k > 0 /\ num.n > 0 /\ num.r > 0
\* C25 (as stated): whenever the zero-argument const_log2() has returned
\* under the default precision p, the pi cache holds a value recorded under
\* p, so that a const_pi() that follows at once is a cache hit.
C25_PiCacheAtDefaultAfterLog2 ==
    (header = "part_001" /\ last.op = "const_log2")
        => pi_calculated /\ calculated_pi_precision = DefaultBits
\* C25 (amended): a const_log2() that recomputes under the default precision
\* p leaves the pi cache recorded under p, and a const_pi() that follows at
\* once is a cache hit that leaves the cache as it is; a const_log2() that
\* serves its own cache leaves the pi cache as it was, under whatever
\* precision it was recorded.
C25_Log2MissRecordsPi ==
    [][(header = "part_001")
       => /\ (last'.op = "const_log2" /\ last'.arg = "miss")
                => pi_calculated' /\ calculated_pi_precision' = DefaultBits
          /\ (last'.op = "const_log2" /\ last'.arg = "hit")
                => UNCHANGED <<pi_cached, pi_calculated,
                               calculated_pi_precision, calls>>
          /\ (last = Op("const_log2", "miss") /\ last'.op = "const_pi")
                => /\ last'.arg = "hit" /\ ~calls'[2].recomputed
                   /\ UNCHANGED <<pi_cached, pi_calculated,
                                  calculated_pi_precision>>]_vars
\* const_log2() has recomputed under 128 bits over a pi cache recorded
\* under 256 bits
C25_Witness ==
    /\ header = "part_001" /\ last = Op("const_log2", "miss")
    /\ calls[1] = [dflt |-> 256, recomputed |-> TRUE]
    /\ calls[2] = [dflt |-> 128, recomputed |-> TRUE]
    /\ calculated_pi_precision = 128 /\ calculated_log2_precision = 128
\* C26: in both headers log(x), exp(x), const_pi(), const_log2(), const_pi(p)
\* and const_log2(p) leave the process-wide default precision as it was and
\* write nothing to the standard output.
C26_NoEffectOnDefaultOrOutput ==
    [][(last'.op \in {"log", "exp", "const_pi", "const_log2",
                      "const_pi_prec", "const_log2_prec"})
       => default_prec' = default_prec /\ os' = os]_vars
\* C27: postfix x++ and x-- on an mpf_class return the value x had before
\* the step and leave x one more, one less, as the mpz_class postfix
\* operators do.
C27_PostfixReturnsOldValue ==
    (last.op = "postfix")
        => /\ last.arg.out.returned = last.arg.v
           /\ last.arg.out.x = last.arg.v + last.arg.step
\* C28: for every mpz_class a, negative ones included, and every n >= 0,
\* a >>= n leaves in a the value a >> n has.
C28_ShiftAssignIsShift ==
    (last.op = "shift_right") => last.arg.assigned = last.arg.value
\* the product of the primes up to n, and the Fibonacci number F(n)
RECURSIVE Primorial(_)
Primorial(n) ==
    IF n < 2 THEN 1
    ELSE IF \E d \in 2..(n - 1) : n % d = 0 THEN Primorial(n - 1)
    ELSE n * Primorial(n - 1)
RECURSIVE Fib(_)
Fib(n) == IF n = 0 THEN 0 ELSE IF n = 1 THEN 1 ELSE Fib(n - 1) + Fib(n - 2)
\* C29: for n >= 0 factorial, primorial and fibonacci either throw or
\* return exactly n!, the primorial of n, F(n): an argument that passes the
\* size check is never reduced before the engine routine runs on it, those at
\* or above the range of unsigned long included.
C29_ExactOrThrows ==
    (/\ header = "part_001"
     /\ last.op \in {"factorial", "primorial", "fibonacci"}
     /\ ~last.arg.n.neg)
        => \/ signal # "none"
           \/ /\ last.arg.n.high = 0
              /\ last.arg.result
                   = (IF last.op = "factorial" THEN Fact(last.arg.n.low)
                      ELSE IF last.op = "primorial"
                      THEN Primorial(last.arg.n.low)
                      ELSE Fib(last.arg.n.low))
\* C30: for every precision const_log2() and const_log2(p) can be run with,
\* p >= 0 and every default precision, the unsigned count (p / 2) - 2 the AGM
\* start is scaled by is computed without wrapping below zero.
C30_ShiftCountDoesNotWrap ==
    /\ (last.op = "const_log2" /\ last.arg = "miss")
          => log2_shift_count(DefaultBits) = (DefaultBits \div 2) - 2
    /\ (/\ last.op = "const_log2_prec"
        /\ (~noprecchange \/ last.arg.p = DefaultBits))
          => last.arg.count = (last.arg.p \div 2) - 2
====
